---- MODULE Spec2Model ----
(***************************************************************************)
(* Resilient request execution of the literature layer:                    *)
(*   src/src/literature/error_handler.py  (ExponentialBackoff,             *)
(*       CircuitBreaker, ErrorClassifier, RobustErrorHandler)              *)
(*   src/src/literature/quota_manager.py  (QuotaTracker, RateLimiter,      *)
(*       QuotaManager)                                                     *)
(* Time is a discrete wall clock; one unit is one second.                  *)
(***************************************************************************)
EXTENDS Integers, Sequences, FiniteSets, TLC

VARIABLES
    handler,            \* RobustErrorHandler configuration (set by __init__)
    circuit_breakers,   \* RobustErrorHandler.circuit_breakers: service -> CircuitBreaker
    now,                \* wall clock read by time.time()
    run,                \* the call in progress: CircuitBreaker.call or (async_)execute_with_retry
    hist,               \* history of the service's breaker since its construction
    twin,               \* a second handler, driven through async_execute_with_retry
    quota_trackers,     \* QuotaManager.quota_trackers: api name -> QuotaTracker
    rate_limiters,      \* QuotaManager.rate_limiters: api name -> RateLimiter
    clock,              \* wall clock read by datetime.now() and time.time(), in seconds
    threads,            \* the record_request call each thread is in
    ledger,             \* what the calls of the current minute window did
    call                \* the last call of a function or method on its own: its
                        \* name, its arguments and what it returned

handlerVars == <<handler, circuit_breakers, now, run, hist, twin>>

quotaVars == <<quota_trackers, rate_limiters, clock, threads, ledger>>

vars == <<handler, circuit_breakers, now, run, hist, twin,
          quota_trackers, rate_limiters, clock, threads, ledger, call>>

\* No function has been called on its own.
NoCall == [op |-> "none"]

----------------------------------------------------------------------------
(* Bounds of the model *)

MaxAttempts == 3        \* largest max_attempts a handler is built with
MaxThreshold == 3       \* largest circuit_breaker_threshold
MaxTimeout == 2         \* largest circuit_breaker_timeout, in seconds
MaxTime == 5            \* the clock stops here

----------------------------------------------------------------------------
(* Values *)

None == -1

CLOSED == "closed"
OPEN == "open"
HALF_OPEN == "half_open"

Service == "default"

\* An exception, given by its class and by its response attribute: the kind of
\* object attached ("none": None, "Response": a requests.Response, as
\* raise_for_status attaches it, "Mock": an object without a truth value of its
\* own, as the tests attach it) and that object's status_code (0 without one).
Exception(cls, status, response) == [cls |-> cls, status |-> status, response |-> response]

\* An outcome of one invocation of the wrapped operation: a returned value or
\* a raised exception, given by its class and, for an HTTPError, the status
\* code of the requests.Response attached (0: no response attached).
Outcome(cls, status) ==
    Exception(cls, status, IF status = 0 THEN "none" ELSE "Response")

Ok == Outcome("return", 0)
NoOutcome == Outcome("none", 0)
ConnectionFault == Outcome("ConnectionError", 0)
NotFoundFault == Outcome("HTTPError", 404)
UnknownFault == Outcome("ValueError", 0)
SSLFault == Outcome("SSLError", 0)
RequestFault == Outcome("RequestException", 0)
CircuitOpenError == Outcome("NonRetryableError", 0)
RaiseNoneError == Outcome("TypeError", 0)

\* What the operations of the model raise or return.
OpOutcomes == {Ok, ConnectionFault, NotFoundFault, UnknownFault, SSLFault, RequestFault}

\* The operations of the model: script[i] is what the operation does when it is
\* invoked for the i-th time. It raises the transient ConnectionError some number
\* of times and then settles: it returns from then on, or raises one permanent
\* fault from then on.
Scripts(n) ==
    {s \in [1..n -> OpOutcomes] :
        \A i \in 1..(n - 1) : s[i] # ConnectionFault => s[i + 1] = s[i]}

\* requests.exceptions: the classes an exception class is an instance of.
Mro(cls) ==
    CASE cls = "ConnectionError" -> {"ConnectionError", "RequestException", "Exception"}
      [] cls = "Timeout" -> {"Timeout", "RequestException", "Exception"}
      [] cls = "SSLError" -> {"SSLError", "ConnectionError", "RequestException", "Exception"}
      [] cls = "ProxyError" -> {"ProxyError", "ConnectionError", "RequestException", "Exception"}
      [] cls = "ChunkedEncodingError" -> {"ChunkedEncodingError", "RequestException", "Exception"}
      [] cls = "HTTPError" -> {"HTTPError", "RequestException", "Exception"}
      [] cls = "RequestException" -> {"RequestException", "Exception"}
      [] OTHER -> {cls, "Exception"}

isinstance(e, classes) == Mro(e.cls) \cap classes # {}

\* bool(exception.response): None is false, a requests.Response is true exactly
\* when it is ok (its status_code is not in 400..599), any other object is true.
response_bool(e) ==
    CASE e.response = "none" -> FALSE
      [] e.response = "Response" -> ~(400 <= e.status /\ e.status < 600)
      [] OTHER -> TRUE

----------------------------------------------------------------------------
(* ErrorClassifier *)

RETRYABLE_STATUS_CODES == {408, 429, 500, 502, 503, 504}
NON_RETRYABLE_STATUS_CODES == {400, 401, 403, 404, 405, 406, 409, 410, 422}

\* A slip: an exception of no known class is given the benefit of the doubt.
classify_exception_lenient(e) ==
    IF isinstance(e, {"ConnectionError", "Timeout"}) THEN <<TRUE, "medium">>
    ELSE IF isinstance(e, {"HTTPError"}) THEN <<FALSE, "high">>
    ELSE <<TRUE, "medium">>

\* <<is_retryable, severity>>
classify_exception(e) ==
    IF isinstance(e, {"ConnectionError", "Timeout"}) THEN <<TRUE, "medium">>
    ELSE IF isinstance(e, {"SSLError"}) THEN <<FALSE, "high">>
    ELSE IF isinstance(e, {"ProxyError"}) THEN <<TRUE, "medium">>
    ELSE IF isinstance(e, {"ChunkedEncodingError"}) THEN <<TRUE, "low">>
    ELSE IF isinstance(e, {"HTTPError"}) THEN
        IF response_bool(e) /\ e.status \in RETRYABLE_STATUS_CODES
        THEN <<TRUE, IF e.status >= 500 THEN "high" ELSE "medium">>
        ELSE IF response_bool(e) /\ e.status \in NON_RETRYABLE_STATUS_CODES
        THEN <<FALSE, IF e.status = 401 THEN "critical" ELSE "high">>
        ELSE <<FALSE, "high">>
    ELSE IF isinstance(e, {"RequestException"}) THEN <<TRUE, "medium">>
    ELSE <<FALSE, "critical">>

\* A slip: the attempt number taken as 1-based.
should_retry_oneBased(e, attempt, max_attempts) ==
    IF attempt + 1 >= max_attempts - 1 THEN FALSE
    ELSE IF classify_exception(e)[2] = "critical" THEN FALSE
    ELSE classify_exception(e)[1]

\* A slip: the verdict of the classifier is not consulted.
should_retry_anyFault(e, attempt, max_attempts) == attempt < max_attempts - 1

should_retry(e, attempt, max_attempts) ==
    IF attempt >= max_attempts - 1 THEN FALSE
    ELSE IF classify_exception(e)[2] = "critical" THEN FALSE
    ELSE classify_exception(e)[1]

----------------------------------------------------------------------------
(* ExponentialBackoff *)

ExponentialBackoff(base_delay, max_delay) ==
    [base_delay |-> base_delay, max_delay |-> max_delay, multiplier |-> 2,
     jitter |-> TRUE, max_jitter_pct |-> 10, attempt |-> 0]

Min(a, b) == IF a <= b THEN a ELSE b

RECURSIVE Pow(_, _)
Pow(b, n) == IF n = 0 THEN 1 ELSE b * Pow(b, n - 1)

\* A slip: the delay is not capped.
get_delay_uncapped(b, r) ==
    LET delay == b.base_delay * Pow(b.multiplier, b.attempt)
    IN IF b.jitter THEN delay + (delay * b.max_jitter_pct * r) \div 10000 ELSE delay

\* r: the value of random.random(), in hundredths; the delay in whole units of
\* time (seconds for the handlers of the model).
get_delay(b, r) ==
    LET delay == Min(b.base_delay * Pow(b.multiplier, b.attempt), b.max_delay)
    IN IF b.jitter THEN delay + (delay * b.max_jitter_pct * r) \div 10000 ELSE delay

backoff_reset(b) == [b EXCEPT !.attempt = 0]

----------------------------------------------------------------------------
(* CircuitBreaker *)

CircuitBreaker(failure_threshold, recovery_timeout) ==
    [failure_threshold |-> failure_threshold, recovery_timeout |-> recovery_timeout,
     failure_count |-> 0, last_failure_time |-> None, state |-> CLOSED]

\* Python truth of an Optional[float]
Truthy(x) == x # None /\ x # 0

\* A slip: the recovery timeout is not consulted.
_should_attempt_reset_noTimeout(cb, t) ==
    cb.state = OPEN /\ Truthy(cb.last_failure_time)

\* A slip: > for >=.
_should_attempt_reset_strict(cb, t) ==
    /\ cb.state = OPEN
    /\ Truthy(cb.last_failure_time)
    /\ t - cb.last_failure_time > cb.recovery_timeout

_should_attempt_reset(cb, t) ==
    /\ cb.state = OPEN
    /\ Truthy(cb.last_failure_time)
    /\ t - cb.last_failure_time >= cb.recovery_timeout

\* A slip: only a CLOSED breaker is opened.
_record_failure_closedOnly(cb, t) ==
    LET c == [cb EXCEPT !.failure_count = @ + 1, !.last_failure_time = t]
    IN IF c.state = CLOSED /\ c.failure_count >= c.failure_threshold
       THEN [c EXCEPT !.state = OPEN]
       ELSE c

\* A slip: > for >=.
_record_failure_strict(cb, t) ==
    LET c == [cb EXCEPT !.failure_count = @ + 1, !.last_failure_time = t]
    IN IF c.failure_count > c.failure_threshold THEN [c EXCEPT !.state = OPEN] ELSE c

\* A slip: the threshold is compared before the failure is counted in.
_record_failure_early(cb, t) ==
    LET c == [cb EXCEPT !.failure_count = @ + 1, !.last_failure_time = t]
    IN IF c.failure_count + 1 >= c.failure_threshold THEN [c EXCEPT !.state = OPEN] ELSE c

_record_failure(cb, t) ==
    LET c == [cb EXCEPT !.failure_count = @ + 1, !.last_failure_time = t]
    IN IF c.failure_count >= c.failure_threshold THEN [c EXCEPT !.state = OPEN] ELSE c

\* A slip: the reset closes the breaker and keeps its count.
reset_keepsCount(cb) == [cb EXCEPT !.state = CLOSED, !.last_failure_time = None]

reset(cb) == [cb EXCEPT !.state = CLOSED, !.failure_count = 0, !.last_failure_time = None]

----------------------------------------------------------------------------
(* RobustErrorHandler *)

RobustErrorHandler(max_attempts, circuit_breaker_threshold, circuit_breaker_timeout) ==
    [max_attempts |-> max_attempts, base_delay |-> 1, max_delay |-> 2,
     circuit_breaker_threshold |-> circuit_breaker_threshold,
     circuit_breaker_timeout |-> circuit_breaker_timeout]

\* The handlers the model builds.
Handlers ==
    {RobustErrorHandler(m, th, to) :
        m \in 0..MaxAttempts, th \in 1..MaxThreshold, to \in 1..MaxTimeout}

\* A slip: every call gets a breaker of its own.
_get_circuit_breaker_fresh(h, cbs, service_name) ==
    [s \in DOMAIN cbs \cup {service_name} |->
        IF s = service_name
        THEN CircuitBreaker(h.circuit_breaker_threshold, h.circuit_breaker_timeout)
        ELSE cbs[s]]

\* circuit_breakers after _get_circuit_breaker(service_name)
_get_circuit_breaker(h, cbs, service_name) ==
    IF service_name \in DOMAIN cbs THEN cbs
    ELSE cbs @@ (service_name :> CircuitBreaker(h.circuit_breaker_threshold,
                                                  h.circuit_breaker_timeout))

\* No call in progress.
IdleRun ==
    [pc |-> "idle", mode |-> "none", attempt |-> 0, backoff |-> ExponentialBackoff(0, 0),
     last_exception |-> NoOutcome, result |-> NoOutcome, calls |-> 0, sleeps |-> 0,
     script |-> << >>, start |-> CircuitBreaker(0, 0), t0 |-> 0, opened |-> FALSE,
     service_name |-> Service]

\* The locals of a call at its first statement. mode: "call" is CircuitBreaker.call
\* on the service's breaker, "sync" execute_with_retry, "async"
\* async_execute_with_retry. start, t0, opened, calls and sleeps record what the
\* call met and did; the code does not read them.
BeginRun(h, mode, script, cb, t) ==
    LET r == [IdleRun EXCEPT !.mode = mode, !.script = script, !.start = cb, !.t0 = t,
                             !.backoff = ExponentialBackoff(h.base_delay, h.max_delay)]
    IN IF mode # "call" /\ h.max_attempts <= 0
       THEN [r EXCEPT !.pc = "raised", !.result = RaiseNoneError]
       ELSE [r EXCEPT !.pc = "gate"]

Done(r) == r.pc \in {"returned", "raised"}

\* The except branch of (async_)execute_with_retry for exception e, from
\* "last_exception = e" to the end of the loop body and the loop's exit;
\* CircuitBreaker.call re-raises e to its caller. rnd: random.random() of the sleep.
HandleException(h, w, e, rnd) ==
    LET r == [w.run EXCEPT !.last_exception = e]
    IN IF r.mode = "call" \/ ~should_retry(e, r.attempt, h.max_attempts)
       THEN [w EXCEPT !.run = [r EXCEPT !.pc = "raised", !.result = e]]
       ELSE LET sleeping == r.attempt < h.max_attempts - 1
                slept == IF sleeping
                         THEN [r EXCEPT !.backoff.attempt = @ + 1, !.sleeps = @ + 1]
                         ELSE r
                t == IF sleeping THEN w.now + get_delay(r.backoff, rnd) ELSE w.now
            IN IF r.attempt + 1 < h.max_attempts
               THEN [w EXCEPT !.now = t, !.run = [slept EXCEPT !.attempt = @ + 1, !.pc = "gate"]]
               ELSE [w EXCEPT !.now = t,
                              !.run = [slept EXCEPT !.pc = "raised", !.result = e]]

\* The check of the breaker before the operation is invoked: CircuitBreaker.call
\* up to its try, or the same lines inside the try of async_execute_with_retry,
\* where the rejection is caught by the loop's own except and recorded.
GateStep(h, w, rnd) ==
    IF w.cb.state = OPEN
    THEN IF _should_attempt_reset(w.cb, w.now)
         THEN [w EXCEPT !.cb.state = HALF_OPEN, !.run.pc = "op"]
         ELSE IF w.run.mode = "async"
              THEN LET c == _record_failure(w.cb, w.now)
                   IN HandleException(h,
                         [w EXCEPT !.cb = c, !.run.opened = @ \/ c.state = OPEN],
                         CircuitOpenError, rnd)
              ELSE HandleException(h, w, CircuitOpenError, rnd)
    ELSE [w EXCEPT !.run.pc = "op"]

\* Mutant of OpStep: every success zeroes failure_count.
OpStep_zeroesOnSuccess(h, w, rnd) ==
    LET o == w.run.script[w.run.calls + 1]
        r == [w.run EXCEPT !.calls = @ + 1]
    IN IF o = Ok
       THEN [w EXCEPT !.cb = [w.cb EXCEPT !.state = CLOSED, !.failure_count = 0],
                      !.run = [r EXCEPT !.pc = "returned", !.result = Ok,
                                        !.backoff = IF r.mode = "call" THEN @
                                                    ELSE backoff_reset(@)]]
       ELSE LET c == _record_failure(w.cb, w.now)
            IN HandleException(h,
                  [w EXCEPT !.cb = c, !.run = [r EXCEPT !.opened = @ \/ c.state = OPEN]],
                  o, rnd)

\* The operation is invoked and returns or raises script[calls + 1]; the rest of
\* the try of CircuitBreaker.call or async_execute_with_retry, and its except.
OpStep(h, w, rnd) ==
    LET o == w.run.script[w.run.calls + 1]
        r == [w.run EXCEPT !.calls = @ + 1]
    IN IF o = Ok
       THEN [w EXCEPT !.cb = IF w.cb.state = HALF_OPEN
                             THEN [w.cb EXCEPT !.state = CLOSED, !.failure_count = 0]
                             ELSE w.cb,
                      !.run = [r EXCEPT !.pc = "returned", !.result = Ok,
                                        !.backoff = IF r.mode = "call" THEN @
                                                    ELSE backoff_reset(@)]]
       ELSE LET c == _record_failure(w.cb, w.now)
            IN HandleException(h,
                  [w EXCEPT !.cb = c, !.run = [r EXCEPT !.opened = @ \/ c.state = OPEN]],
                  o, rnd)

\* One statement group of the call in progress.
Step(h, w, rnd) ==
    IF w.run.pc = "gate" THEN GateStep(h, w, rnd)
    ELSE IF w.run.pc = "op" THEN OpStep(h, w, rnd)
    ELSE w

\* random.random(), in hundredths
RandomValues == {0, 50, 99}

----------------------------------------------------------------------------
(* One handler, one thread: calls through the breaker of one service, manual *)
(* resets, and the clock.                                                    *)

\* The history of a breaker just built. fails and reset: see Record; since: the
\* failed calls since the last manual reset, counted up to the threshold, None
\* before the first manual reset; from: the state that reset found; admitted:
\* the invocations let through since the breaker turned HALF_OPEN, while it is.
NoHistory ==
    [fails |-> 0, reset |-> FALSE, since |-> None, from |-> "none", admitted |-> 0]

World == [cb |-> circuit_breakers[run.service_name], run |-> run, now |-> now]

NoTwin == [cb |-> CircuitBreaker(0, 0), run |-> IdleRun, now |-> 0]

Init ==
    /\ handler \in Handlers
    /\ circuit_breakers = << >>
    /\ now = 1
    /\ run = IdleRun
    /\ hist = NoHistory
    /\ twin = NoTwin
    /\ quota_trackers = << >> /\ rate_limiters = << >>
    /\ clock = 0 /\ threads = << >> /\ ledger = << >>
    /\ call = NoCall

\* A caller starts CircuitBreaker.call, execute_with_retry or
\* async_execute_with_retry for service_name with an operation that behaves as
\* script.
StartCallFor(mode, service_name) ==
    /\ run.pc = "idle"
    /\ LET cbs == _get_circuit_breaker(handler, circuit_breakers, service_name)
       IN /\ cbs[service_name].failure_count <= MaxThreshold
          /\ \E script \in Scripts(IF mode = "call" THEN 1 ELSE handler.max_attempts) :
               /\ circuit_breakers' = cbs
               /\ run' = [BeginRun(handler, mode, script, cbs[service_name], now)
                             EXCEPT !.service_name = service_name]
    /\ UNCHANGED <<handler, now, hist, twin>>
    /\ UNCHANGED <<quotaVars, call>>

\* The same with the default service name.
StartCall(mode) == StartCallFor(mode, Service)

\* The call in progress runs to its next statement group.
StepCall ==
    /\ run.pc \in {"gate", "op"}
    /\ \E rnd \in RandomValues :
         LET w == Step(handler, World, rnd)
         IN /\ w.now <= MaxTime
            /\ circuit_breakers' = [circuit_breakers EXCEPT ![run.service_name] = w.cb]
            /\ run' = w.run
            /\ now' = w.now
    /\ UNCHANGED <<handler, twin>>
    /\ UNCHANGED <<quotaVars, call>>

\* What StepCall adds to the breaker's history: the failed calls since the
\* breaker was built, until its first reset (manual, or by a HALF_OPEN success).
Record ==
    LET failed == run.pc = "op" /\ ~(run'.result = Ok /\ Done(run'))
        since == IF failed /\ hist.since # None
                 THEN Min(hist.since + 1, circuit_breakers[Service].failure_threshold)
                 ELSE hist.since
    IN hist' = IF run.pc = "op" /\ ~hist.reset
               THEN IF ~failed
                    THEN IF circuit_breakers[Service].state = HALF_OPEN
                         THEN [hist EXCEPT !.fails = 0, !.reset = TRUE]
                         ELSE hist
                    ELSE [hist EXCEPT !.fails = @ + 1, !.since = since]
               ELSE [hist EXCEPT !.since = since]

\* The call has returned or raised to its caller.
Finish ==
    /\ Done(run)
    /\ run' = IdleRun
    /\ UNCHANGED <<handler, circuit_breakers, now, hist, twin>>
    /\ UNCHANGED <<quotaVars, call>>

\* reset_circuit_breaker(Service)
Reset ==
    /\ Service \in DOMAIN circuit_breakers
    /\ circuit_breakers' = [circuit_breakers EXCEPT ![Service] = reset(@)]
    /\ hist' = [hist EXCEPT !.fails = 0, !.reset = TRUE, !.since = 0,
                            !.from = circuit_breakers[Service].state]
    /\ UNCHANGED <<handler, now, run, twin>>
    /\ UNCHANGED <<quotaVars, call>>

\* Time passes.
Tick ==
    /\ now < MaxTime
    /\ now' = now + 1
    /\ UNCHANGED <<handler, circuit_breakers, run, hist, twin>>
    /\ UNCHANGED <<quotaVars, call>>

\* CircuitBreaker.call on one breaker, manual resets at any moment, and time
\* passing between calls and while the operation runs.
NextBreaker ==
    \/ StartCall("call")
    \/ StepCall /\ Record
    \/ Finish
    \/ Reset
    \/ Tick /\ run.pc \in {"idle", "op"}

SpecBreaker == Init /\ [][NextBreaker]_vars

\* execute_with_retry and async_execute_with_retry of one handler, one after the
\* other, with manual resets and time passing between them.
NextRetry ==
    \/ StartCall("sync")
    \/ StartCall("async")
    \/ StepCall /\ UNCHANGED hist
    \/ Finish
    \/ Reset /\ run.pc = "idle"
    \/ Tick /\ run.pc = "idle"

SpecRetry == Init /\ [][NextRetry]_vars

\* The service names the callers of one handler use.
Services == {Service, "pubmed"}

\* execute_with_retry of one handler for several services, one call after the
\* other; time passes while the calls sleep.
NextServices ==
    \/ \E service_name \in Services : StartCallFor("sync", service_name)
    \/ StepCall /\ UNCHANGED hist
    \/ Finish

\* The handlers whose breakers recover soonest, so that calls for either service
\* meet breakers in every state before the clock stops.
InitServices == Init /\ handler.circuit_breaker_timeout = 1

SpecServices == InitServices /\ [][NextServices]_vars

\* execute_with_retry on one handler and async_execute_with_retry on a second
\* handler built with the same arguments, both given the same operation at the
\* same time, while their breakers are in the same state.
InitPair ==
    /\ handler \in Handlers
    /\ circuit_breakers = (Service :> CircuitBreaker(handler.circuit_breaker_threshold,
                                                    handler.circuit_breaker_timeout))
    /\ now = 1
    /\ run = IdleRun
    /\ hist = NoHistory
    /\ twin = [cb |-> circuit_breakers[Service], run |-> IdleRun, now |-> now]
    /\ quota_trackers = << >> /\ rate_limiters = << >>
    /\ clock = 0 /\ threads = << >> /\ ledger = << >>
    /\ call = NoCall

PairStart ==
    /\ run.pc = "idle" /\ twin.run.pc = "idle"
    /\ twin.cb = circuit_breakers[Service] /\ twin.now = now
    /\ twin.cb.failure_count <= MaxThreshold
    /\ \E script \in Scripts(handler.max_attempts) :
         /\ run' = BeginRun(handler, "sync", script, circuit_breakers[Service], now)
         /\ twin' = [twin EXCEPT !.run = BeginRun(handler, "async", script, twin.cb, twin.now)]
    /\ UNCHANGED <<handler, circuit_breakers, now, hist>>
    /\ UNCHANGED <<quotaVars, call>>

PairStepTwin ==
    /\ twin.run.pc \in {"gate", "op"}
    /\ \E rnd \in RandomValues :
         /\ twin' = Step(handler, twin, rnd)
         /\ twin'.now <= MaxTime
    /\ UNCHANGED <<handler, circuit_breakers, now, run, hist>>
    /\ UNCHANGED <<quotaVars, call>>

PairFinish ==
    /\ Done(run) /\ Done(twin.run)
    /\ run' = IdleRun
    /\ twin' = [twin EXCEPT !.run = IdleRun]
    /\ UNCHANGED <<handler, circuit_breakers, now, hist>>
    /\ UNCHANGED <<quotaVars, call>>

PairReset ==
    /\ run.pc = "idle" /\ twin.run.pc = "idle"
    /\ circuit_breakers' = [circuit_breakers EXCEPT ![Service] = reset(@)]
    /\ twin' = [twin EXCEPT !.cb = reset(@)]
    /\ UNCHANGED <<handler, now, run, hist>>
    /\ UNCHANGED <<quotaVars, call>>

PairTick ==
    /\ run.pc = "idle" /\ twin.run.pc = "idle"
    /\ now < MaxTime /\ twin.now < MaxTime
    /\ now' = now + 1
    /\ twin' = [twin EXCEPT !.now = @ + 1]
    /\ UNCHANGED <<handler, circuit_breakers, run, hist>>
    /\ UNCHANGED <<quotaVars, call>>

NextPair ==
    \/ PairStart
    \/ StepCall /\ UNCHANGED hist
    \/ PairStepTwin
    \/ PairFinish
    \/ PairReset
    \/ PairTick

SpecPair == InitPair /\ [][NextPair]_vars

----------------------------------------------------------------------------
(* Two callers at once on the breaker of one service: threads in *)
(* CircuitBreaker.call, or coroutines in async_execute_with_retry, which give *)
(* way to each other at the await of the operation and of the sleep. The first *)
(* caller is run, the second twin.run; both use circuit_breakers[Service]. *)

\* The second caller's view of the shared breaker and clock.
TwinWorld == [cb |-> circuit_breakers[Service], run |-> twin.run, now |-> now]

\* The locals of a concurrent caller at its first statement. What the breaker
\* was when the caller arrived is not recorded: it may have changed by the time
\* the caller checks it.
Arrive(mode, script) == BeginRun(handler, mode, script, CircuitBreaker(0, 0), 0)

\* The first caller starts a call.
CallerStart(mode) ==
    /\ run.pc = "idle"
    /\ LET cbs == _get_circuit_breaker(handler, circuit_breakers, Service)
       IN /\ cbs[Service].failure_count <= MaxThreshold
          /\ \E script \in Scripts(IF mode = "call" THEN 1 ELSE handler.max_attempts) :
               /\ circuit_breakers' = cbs
               /\ run' = Arrive(mode, script)
    /\ UNCHANGED <<handler, now, twin, hist>>
    /\ UNCHANGED <<quotaVars, call>>

\* The second caller starts a call.
TwinStart(mode) ==
    /\ twin.run.pc = "idle"
    /\ LET cbs == _get_circuit_breaker(handler, circuit_breakers, Service)
       IN /\ cbs[Service].failure_count <= MaxThreshold
          /\ \E script \in Scripts(IF mode = "call" THEN 1 ELSE handler.max_attempts) :
               /\ circuit_breakers' = cbs
               /\ twin' = [twin EXCEPT !.run = Arrive(mode, script)]
    /\ UNCHANGED <<handler, now, run, hist>>
    /\ UNCHANGED <<quotaVars, call>>

\* The second caller runs to its next statement group.
TwinStep ==
    /\ twin.run.pc \in {"gate", "op"}
    /\ \E rnd \in RandomValues :
         LET w == Step(handler, TwinWorld, rnd)
         IN /\ w.now <= MaxTime
            /\ circuit_breakers' = [circuit_breakers EXCEPT ![Service] = w.cb]
            /\ twin' = [twin EXCEPT !.run = w.run]
            /\ now' = w.now
    /\ UNCHANGED <<handler, run>>
    /\ UNCHANGED <<quotaVars, call>>

\* The second caller's call has returned or raised.
TwinFinish ==
    /\ Done(twin.run)
    /\ twin' = [twin EXCEPT !.run = IdleRun]
    /\ UNCHANGED <<handler, circuit_breakers, now, run, hist>>
    /\ UNCHANGED <<quotaVars, call>>

\* What a step of caller r adds to the breaker's history: the invocations let
\* through since the breaker turned HALF_OPEN, until it leaves HALF_OPEN.
Admit(r) ==
    LET cb == circuit_breakers[Service]
        after == circuit_breakers'[Service]
    IN hist' = IF r.pc = "gate"
               THEN IF cb.state = OPEN /\ after.state = HALF_OPEN
                    THEN [hist EXCEPT !.admitted = 1]
                    ELSE IF cb.state = HALF_OPEN /\ after.state = HALF_OPEN
                         THEN [hist EXCEPT !.admitted = @ + 1]
                         ELSE hist
               ELSE IF after.state # HALF_OPEN
                    THEN [hist EXCEPT !.admitted = 0]
                    ELSE hist

\* Two threads in CircuitBreaker.call, or two coroutines in
\* async_execute_with_retry, in any interleaving, and time passing.
NextConcurrent ==
    \/ CallerStart("call") /\ twin.run.mode # "async"
    \/ CallerStart("async") /\ twin.run.mode # "call"
    \/ TwinStart("call") /\ run.mode # "async"
    \/ TwinStart("async") /\ run.mode # "call"
    \/ StepCall /\ Admit(run)
    \/ TwinStep /\ Admit(twin.run)
    \/ Finish
    \/ TwinFinish
    \/ Tick

\* The handlers whose breakers recover soonest and whose calls do not retry:
\* enough for two callers to meet the breaker in every state.
InitConcurrent ==
    /\ Init
    /\ handler.circuit_breaker_timeout = 1
    /\ handler.max_attempts <= 1

SpecConcurrent == InitConcurrent /\ [][NextConcurrent]_vars

----------------------------------------------------------------------------
(* Properties of the circuit breaker, under SpecBreaker *)

HasBreaker == Service \in DOMAIN circuit_breakers
Breaker == circuit_breakers[Service]

\* C1: a breaker built with failure_threshold T >= 1 and not reset since is
\* CLOSED with failure_count = j after j < T failed calls, and from the T-th
\* failed call on it is not CLOSED and has last_failure_time recorded: it is OPEN,
\* unless a later call is making its recovery trial.
C1_OpensAtThreshold ==
    (HasBreaker /\ ~hist.reset) =>
        /\ Breaker.failure_count = hist.fails
        /\ hist.fails < Breaker.failure_threshold => Breaker.state = CLOSED
        /\ hist.fails >= Breaker.failure_threshold =>
              /\ Breaker.state # CLOSED
              /\ Truthy(Breaker.last_failure_time)
              /\ run.pc # "op" => Breaker.state = OPEN

\* The largest threshold has just been reached by failed calls alone.
C1_Witness ==
    /\ HasBreaker /\ ~hist.reset
    /\ Breaker.failure_threshold = MaxThreshold
    /\ hist.fails = MaxThreshold
    /\ Breaker.state = OPEN
    /\ run.pc = "raised" /\ run.result = ConnectionFault

\* The call in progress executes its check of the breaker.
AtGate == HasBreaker /\ run.pc = "gate" /\ run' # run

\* C2: a call that finds the breaker OPEN less than recovery_timeout after
\* last_failure_time raises the circuit-open NonRetryableError and does not
\* invoke the operation.
C2_OpenRejects ==
    [][(/\ AtGate
        /\ Breaker.state = OPEN
        /\ now - Breaker.last_failure_time < Breaker.recovery_timeout)
       => (/\ run'.pc = "raised"
           /\ run'.result = CircuitOpenError
           /\ run'.calls = run.calls)]_vars

\* A call was rejected by the open breaker before the timeout.
C2_Witness ==
    /\ HasBreaker
    /\ run.pc = "raised" /\ run.result = CircuitOpenError /\ run.calls = 0
    /\ Breaker.state = OPEN
    /\ now - Breaker.last_failure_time < Breaker.recovery_timeout

\* C3: a call that finds the breaker OPEN at least recovery_timeout after
\* last_failure_time moves it to HALF_OPEN and invokes the operation; when the
\* operation invoked in HALF_OPEN returns, the breaker is CLOSED with
\* failure_count 0 and the caller gets the operation's result.
C3_RecoveryTrial ==
    [][/\ (/\ AtGate
           /\ Breaker.state = OPEN
           /\ Truthy(Breaker.last_failure_time)
           /\ now - Breaker.last_failure_time >= Breaker.recovery_timeout)
          => (circuit_breakers'[Service].state = HALF_OPEN /\ run'.pc = "op")
       /\ (/\ HasBreaker /\ run.pc = "op" /\ run' # run
           /\ Breaker.state = HALF_OPEN
           /\ run.script[run.calls + 1] = Ok)
          => (/\ circuit_breakers'[Service].state = CLOSED
              /\ circuit_breakers'[Service].failure_count = 0
              /\ run'.pc = "returned" /\ run'.result = Ok
              /\ run'.calls = run.calls + 1)]_vars

\* A call that met the breaker OPEN has returned the operation's result and left
\* the breaker CLOSED.
C3_Witness ==
    /\ HasBreaker
    /\ run.pc = "returned" /\ run.result = Ok /\ run.calls = 1
    /\ run.start.state = OPEN
    /\ run.t0 - run.start.last_failure_time >= run.start.recovery_timeout
    /\ Breaker.state = CLOSED /\ Breaker.failure_count = 0
    /\ Breaker.last_failure_time = run.start.last_failure_time

----------------------------------------------------------------------------
(* Properties of execute_with_retry, under SpecRetry *)

\* The verdict of the classifier lets e be retried while attempts remain.
Retryable(e) ==
    e # Ok /\ classify_exception(e)[1] /\ classify_exception(e)[2] # "critical"

NonRetryable(e) == e # Ok /\ ~Retryable(e)

\* The operation raises a retryable fault on its first k invocations and then
\* returns.
FailsThenSucceeds(s, k) ==
    /\ k + 1 \in DOMAIN s
    /\ \A i \in 1..k : Retryable(s[i])
    /\ s[k + 1] = Ok

\* The breaker lets a call made at time t through to the operation.
Admits(cb, t) == cb.state = OPEN => _should_attempt_reset(cb, t)

SyncDone == HasBreaker /\ run.mode = "sync" /\ Done(run)

\* C4 as stated: for any k < max_attempts, when the operation raises a retryable
\* fault on its first k invocations and then succeeds and the breaker does not
\* open during those failures, execute_with_retry returns the result after k + 1
\* invocations and k sleeps.
C4_AsStated ==
    SyncDone =>
        \A k \in 0..(handler.max_attempts - 1) :
            (FailsThenSucceeds(run.script, k) /\ ~run.opened)
            => (/\ run.pc = "returned" /\ run.result = Ok
                /\ run.calls = k + 1 /\ run.sleeps = k)

\* C4, amended: the same, for a call that starts while the breaker is not
\* rejecting calls (it is not OPEN, or recovery_timeout has elapsed).
C4_RetryThenSuccess ==
    SyncDone =>
        \A k \in 0..(handler.max_attempts - 1) :
            (/\ FailsThenSucceeds(run.script, k)
             /\ ~run.opened
             /\ Admits(run.start, run.t0))
            => (/\ run.pc = "returned" /\ run.result = Ok
                /\ run.calls = k + 1 /\ run.sleeps = k)

\* Two retryable faults, two sleeps, then the result.
C4_Witness ==
    /\ SyncDone
    /\ FailsThenSucceeds(run.script, 2) /\ ~run.opened
    /\ run.pc = "returned" /\ run.result = Ok
    /\ run.calls = 3 /\ run.sleeps = 2

\* C5: when an invocation of the operation raises a non-retryable fault,
\* execute_with_retry raises that exception at once: it is the last invocation
\* and no sleep follows it (one sleep went before each earlier invocation's
\* retry); so an operation that raises non-retryable faults only is invoked once.
C5_NonRetryablePropagates ==
    (HasBreaker /\ run.mode = "sync") =>
        /\ \A i \in 1..run.calls :
              NonRetryable(run.script[i])
              => (/\ i = run.calls
                  /\ run.pc = "raised" /\ run.result = run.script[i]
                  /\ run.sleeps = i - 1)
        /\ (run.calls >= 1 /\ \A i \in DOMAIN run.script : NonRetryable(run.script[i]))
              => run.calls = 1

\* A non-retryable fault on the second invocation, with an attempt left.
C5_Witness ==
    /\ SyncDone
    /\ handler.max_attempts = 3
    /\ run.calls = 2 /\ run.script[2] = NotFoundFault
    /\ run.pc = "raised" /\ run.result = NotFoundFault /\ run.sleeps = 1

\* The operation raises the retryable fault e on every invocation.
AlwaysRaises(s, e) == Retryable(e) /\ \A i \in DOMAIN s : s[i] = e

\* C6 as stated: from a CLOSED breaker, whatever circuit_breaker_threshold is,
\* an operation that always raises the retryable fault e is invoked max_attempts
\* times and execute_with_retry then raises e.
C6_AsStated ==
    (SyncDone /\ handler.max_attempts >= 1 /\ run.start.state = CLOSED) =>
        \A e \in OpOutcomes :
            AlwaysRaises(run.script, e)
            => (run.pc = "raised" /\ run.result = e /\ run.calls = handler.max_attempts)

\* C6, amended: the same, when circuit_breaker_threshold is at least the
\* breaker's failure_count at the start plus max_attempts.
C6_ExhaustsAttempts ==
    (/\ SyncDone /\ handler.max_attempts >= 1 /\ run.start.state = CLOSED
     /\ run.start.failure_threshold >= run.start.failure_count + handler.max_attempts) =>
        \A e \in OpOutcomes :
            AlwaysRaises(run.script, e)
            => (run.pc = "raised" /\ run.result = e /\ run.calls = handler.max_attempts)

\* Every attempt of the largest budget was made and the fault reached the caller.
C6_Witness ==
    /\ SyncDone
    /\ handler.max_attempts = MaxAttempts
    /\ run.start.state = CLOSED
    /\ run.start.failure_threshold >= run.start.failure_count + handler.max_attempts
    /\ AlwaysRaises(run.script, ConnectionFault)
    /\ run.pc = "raised" /\ run.result = ConnectionFault
    /\ run.calls = MaxAttempts

----------------------------------------------------------------------------
(* execute_with_retry against async_execute_with_retry, under SpecPair *)

\* C7: started with the same configuration, the same breaker and the same
\* outcomes of the operation, execute_with_retry and async_execute_with_retry
\* invoke the operation equally often, end with the same outcome, and leave the
\* breaker with the same state, failure_count and last_failure_time.
C7_SamePolicy ==
    (Done(run) /\ Done(twin.run)) =>
        /\ run.calls = twin.run.calls
        /\ run.pc = twin.run.pc
        /\ run.result = twin.run.result
        /\ circuit_breakers[Service].state = twin.cb.state
        /\ circuit_breakers[Service].failure_count = twin.cb.failure_count
        /\ circuit_breakers[Service].last_failure_time = twin.cb.last_failure_time

----------------------------------------------------------------------------
(* QuotaTracker, RateLimiter and QuotaManager: quota_manager.py.  Time is in
   whole seconds and the bucket holds whole tokens.                        *)

MaxLimit == 1      \* largest finite quota limit configured
MaxCalls == 2      \* record_request calls issued
MaxCalendar == 1   \* seconds, minutes, hours and days the clock moves on, in all

\* float('inf'), the default of a limit that is not configured: a value above
\* every count, told apart from the finite limits
Inf == 1000000

Api == "pubmed"

QuotaTypes == {"daily", "hourly", "minute"}

Threads == {"t1", "t2"}

SecondsPerMinute == 60
SecondsPerHour == 60 * SecondsPerMinute
SecondsPerDay == 24 * SecondsPerHour

\* datetime.replace(second=0, ...), replace(minute=0, ...), replace(hour=0, ...)
\* and date(): the start of the minute, hour or day that holds t.
StartOf(t, unit) == (t \div unit) * unit

\* n > limit, for a limit that may be float('inf')
Exceeds(n, limit) == limit # Inf /\ n > limit

Limits == (0..MaxLimit) \cup {Inf}

\* requests_per_second 1.0 and burst_limit 1 are the defaults
Configs ==
    [daily_limit : Limits, hourly_limit : Limits, minute_limit : Limits,
     requests_per_second : {1}, burst_limit : {1, 2}]

QuotaTracker(config, t) ==
    [daily_limit |-> config.daily_limit,
     hourly_limit |-> config.hourly_limit,
     minute_limit |-> config.minute_limit,
     current_usage |-> [daily |-> 0, hourly |-> 0, minute |-> 0],
     last_reset |-> [daily |-> StartOf(t, SecondsPerDay),
                     hourly |-> StartOf(t, SecondsPerHour),
                     minute |-> StartOf(t, SecondsPerMinute)]]

Limit(q, kind) ==
    CASE kind = "daily" -> q.daily_limit
      [] kind = "hourly" -> q.hourly_limit
      [] kind = "minute" -> q.minute_limit

_check_and_reset_quotas(q, t) ==
    LET d == IF StartOf(t, SecondsPerDay) > StartOf(q.last_reset.daily, SecondsPerDay)
             THEN [q EXCEPT !.current_usage.daily = 0,
                            !.last_reset.daily = StartOf(t, SecondsPerDay)]
             ELSE q
        h == IF StartOf(t, SecondsPerHour) > d.last_reset.hourly
             THEN [d EXCEPT !.current_usage.hourly = 0,
                            !.last_reset.hourly = StartOf(t, SecondsPerHour)]
             ELSE d
    IN IF StartOf(t, SecondsPerMinute) > h.last_reset.minute
       THEN [h EXCEPT !.current_usage.minute = 0,
                      !.last_reset.minute = StartOf(t, SecondsPerMinute)]
       ELSE h

\* increment_usage testing the counters themselves against the limits
increment_usage_lax(q, t) ==
    LET r == _check_and_reset_quotas(q, t)
    IN IF \E kind \in QuotaTypes : Exceeds(r.current_usage[kind], Limit(r, kind))
       THEN [tracker |-> r, ret |-> FALSE]
       ELSE [tracker |-> [r EXCEPT !.current_usage = [kind \in QuotaTypes |-> @[kind] + 1]],
             ret |-> TRUE]

\* increment_usage counting the request against the quotas that have room
\* before it rejects
increment_usage_partial(q, t) ==
    LET r == _check_and_reset_quotas(q, t)
    IN IF \E kind \in QuotaTypes : Exceeds(r.current_usage[kind] + 1, Limit(r, kind))
       THEN [tracker |-> [r EXCEPT !.current_usage =
                            [kind \in QuotaTypes |->
                               IF Exceeds(@[kind] + 1, Limit(r, kind))
                               THEN @[kind] ELSE @[kind] + 1]],
             ret |-> FALSE]
       ELSE [tracker |-> [r EXCEPT !.current_usage = [kind \in QuotaTypes |-> @[kind] + 1]],
             ret |-> TRUE]

\* The tracker after the call, and the value returned.
increment_usage(q, t) ==
    LET r == _check_and_reset_quotas(q, t)
    IN IF \/ Exceeds(r.current_usage.daily + 1, r.daily_limit)
          \/ Exceeds(r.current_usage.hourly + 1, r.hourly_limit)
          \/ Exceeds(r.current_usage.minute + 1, r.minute_limit)
       THEN [tracker |-> r, ret |-> FALSE]
       ELSE [tracker |-> [r EXCEPT !.current_usage.daily = @ + 1,
                                   !.current_usage.hourly = @ + 1,
                                   !.current_usage.minute = @ + 1],
             ret |-> TRUE]

RateLimiter(config, t) ==
    [requests_per_second |-> config.requests_per_second,
     burst_limit |-> config.burst_limit,
     tokens |-> config.burst_limit,
     last_refill |-> t]

_refill_tokens(l, t) ==
    LET elapsed == t - l.last_refill
        tokens_to_add == elapsed * l.requests_per_second
    IN [l EXCEPT !.tokens = Min(l.burst_limit, l.tokens + tokens_to_add),
                 !.last_refill = t]

\* The limiter after the call, and the value returned.
consume_token(l, t) ==
    LET r == _refill_tokens(l, t)
    IN IF r.tokens >= 1
       THEN [limiter |-> [r EXCEPT !.tokens = @ - 1], ret |-> TRUE]
       ELSE [limiter |-> r, ret |-> FALSE]

\* A thread that has not called record_request.  result is what its last call
\* returned; took and added are what that call itself removed from the bucket
\* and added to each counter.
IdleThread == [pc |-> "idle", result |-> FALSE, took |-> 0, added |-> 0]

InFlight(th) == th.pc \in {"token", "quota"}

\* The start of a minute window, after calls earlier calls in all: nothing has
\* been issued in it yet; straddle tells that a call issued in an earlier
\* window is still running as it starts.
NewLedger(calls, straddle) ==
    [calls |-> calls, issued |-> 0, admitted |-> 0, denied |-> 0, other |-> 0,
     straddle |-> straddle]

\* QuotaManager(config) for one configured api, built at time 0.
InitQuota ==
    /\ handler = << >> /\ circuit_breakers = << >> /\ now = 0
    /\ run = IdleRun /\ hist = NoHistory /\ twin = NoTwin
    /\ clock = 0
    /\ \E config \in Configs :
         /\ quota_trackers = (Api :> QuotaTracker(config, clock))
         /\ rate_limiters = (Api :> RateLimiter(config, clock))
    /\ threads = [t \in Threads |-> IdleThread]
    /\ ledger = NewLedger(0, FALSE)
    /\ call = NoCall

\* Thread t calls record_request(Api): the api is known, the call goes on to
\* the rate limiter.
RecordRequest(t) ==
    /\ threads[t].pc \in {"idle", "done"}
    /\ ledger.calls < MaxCalls
    /\ threads' = [threads EXCEPT ![t] =
                     IF Api \in DOMAIN quota_trackers
                     THEN [IdleThread EXCEPT !.pc = "token"]
                     ELSE [IdleThread EXCEPT !.pc = "done"]]
    /\ ledger' = [ledger EXCEPT !.calls = @ + 1, !.issued = @ + 1]
    /\ UNCHANGED <<quota_trackers, rate_limiters, clock>>
    /\ UNCHANGED <<handlerVars, call>>

\* rate_limiter.consume_token(), under the limiter's lock; a false result ends
\* record_request.
ConsumeToken(t) ==
    /\ threads[t].pc = "token"
    /\ LET c == consume_token(rate_limiters[Api], clock)
       IN /\ rate_limiters' = [rate_limiters EXCEPT ![Api] = c.limiter]
          /\ threads' = [threads EXCEPT ![t] =
                           IF c.ret
                           THEN [@ EXCEPT !.pc = "quota", !.took = 1]
                           ELSE [@ EXCEPT !.pc = "done", !.result = FALSE]]
          /\ ledger' = IF c.ret
                       THEN ledger
                       ELSE [ledger EXCEPT !.denied = @ + 1]
    /\ UNCHANGED <<quota_trackers, clock>>
    /\ UNCHANGED <<handlerVars, call>>

\* quota_tracker.increment_usage(), under the tracker's lock; its result is the
\* result of record_request.
IncrementUsage(t) ==
    /\ threads[t].pc = "quota"
    /\ LET i == increment_usage(quota_trackers[Api], clock)
           rolled == _check_and_reset_quotas(quota_trackers[Api], clock)
       IN /\ quota_trackers' = [quota_trackers EXCEPT ![Api] = i.tracker]
          /\ threads' = [threads EXCEPT ![t] =
                           [@ EXCEPT !.pc = "done", !.result = i.ret,
                                     !.added = i.tracker.current_usage.minute
                                               - rolled.current_usage.minute]]
          /\ ledger' = [ledger EXCEPT
                          !.admitted = IF i.ret THEN @ + 1 ELSE @,
                          !.other = IF ~i.ret /\ ~Exceeds(rolled.current_usage.minute + 1,
                                                          rolled.minute_limit)
                                    THEN @ + 1 ELSE @]
    /\ UNCHANGED <<rate_limiters, clock>>
    /\ UNCHANGED <<handlerVars, call>>

\* The moments the clock may move to: the next second, or the start of the next
\* minute, hour or day.
Later(t) ==
    {t + 1,
     StartOf(t, SecondsPerMinute) + SecondsPerMinute,
     StartOf(t, SecondsPerHour) + SecondsPerHour,
     StartOf(t, SecondsPerDay) + SecondsPerDay}

\* How far the clock has moved: its day, hour of the day, minute of the hour
\* and second of the minute, added up.
Moved(t) ==
    (t \div SecondsPerDay)
    + ((t % SecondsPerDay) \div SecondsPerHour)
    + ((t % SecondsPerHour) \div SecondsPerMinute)
    + (t % SecondsPerMinute)

\* Time passes, at any point of any call.
TickQuota ==
    /\ Moved(clock) < MaxCalendar
    /\ \E t \in Later(clock) : clock' = t
    /\ ledger' = IF StartOf(clock', SecondsPerMinute) > StartOf(clock, SecondsPerMinute)
                 THEN NewLedger(ledger.calls, \E t \in Threads : InFlight(threads[t]))
                 ELSE ledger
    /\ UNCHANGED <<quota_trackers, rate_limiters, threads>>
    /\ UNCHANGED <<handlerVars, call>>

NextQuota ==
    \/ \E t \in Threads : RecordRequest(t)
    \/ \E t \in Threads : ConsumeToken(t)
    \/ \E t \in Threads : IncrementUsage(t)
    \/ TickQuota

SpecQuota == InitQuota /\ [][NextQuota]_vars

----------------------------------------------------------------------------
(* Properties of the quota accounting, under SpecQuota *)

Tracker == quota_trackers[Api]

\* Every call issued in the current minute window has returned, and all of them
\* started in this window.
Quiet == ~ledger.straddle /\ \A t \in Threads : ~InFlight(threads[t])

\* Calls were issued in the current minute window, all have returned, and the
\* token bucket turned none of them down.
WindowDone == Quiet /\ ledger.issued >= 1 /\ ledger.denied = 0

\* C8 as stated: of the record_request calls that threads issue within one
\* minute window, the token bucket not limiting, at most minute_limit return
\* true, exactly minute_limit return true when at least that many are issued,
\* and the minute counter equals the number that returned true.
C8_AsStated ==
    WindowDone =>
        /\ ~Exceeds(ledger.admitted, Tracker.minute_limit)
        /\ (Tracker.minute_limit # Inf /\ ledger.issued >= Tracker.minute_limit)
              => ledger.admitted = Tracker.minute_limit
        /\ Tracker.current_usage.minute = ledger.admitted

\* C8, amended: at most minute_limit return true and the minute counter equals
\* the number that returned true; exactly minute_limit return true when at
\* least that many are issued and the hourly and daily limits turn none down.
C8_MinuteWindow ==
    WindowDone =>
        /\ ~Exceeds(ledger.admitted, Tracker.minute_limit)
        /\ (/\ Tracker.minute_limit # Inf
            /\ ledger.issued >= Tracker.minute_limit
            /\ ledger.other = 0)
              => ledger.admitted = Tracker.minute_limit
        /\ Tracker.current_usage.minute = ledger.admitted

\* Two threads were inside record_request at once for the last slot of the
\* minute: one was admitted, the other turned down by the minute limit.
C8_Witness ==
    /\ WindowDone /\ ledger.other = 0
    /\ Tracker.minute_limit >= 1 /\ Tracker.minute_limit # Inf
    /\ ledger.issued > Tracker.minute_limit
    /\ ledger.admitted = Tracker.minute_limit
    /\ \A t \in Threads : threads[t].pc = "done" /\ threads[t].took = 1
    /\ \E t \in Threads : ~threads[t].result

\* Thread t's call runs increment_usage in this step.
Increments(t) == threads[t].pc = "quota" /\ threads'[t].pc = "done"

WithinLimits ==
    Api \in DOMAIN quota_trackers =>
        \A kind \in QuotaTypes : ~Exceeds(Tracker.current_usage[kind], Limit(Tracker, kind))

\* usage after a call of increment_usage that returned ret, had the call found
\* the counters at before: all three one higher and true, or none changed and
\* false, and false exactly when a counter of before was at its limit.
AllOrNothing(before, usage, ret, q) ==
    /\ \/ ret /\ \A kind \in QuotaTypes : usage[kind] = before[kind] + 1
       \/ ~ret /\ usage = before
    /\ ~ret <=> \E kind \in QuotaTypes :
                    Limit(q, kind) # Inf /\ before[kind] >= Limit(q, kind)

\* C9 as stated: increment_usage adds 1 to all three counters and returns true,
\* or changes none and returns false; it returns false exactly when a counter
\* is at its limit; no counter ever exceeds its limit.
C9_AsStated ==
    /\ [][\A t \in Threads :
            Increments(t) =>
                AllOrNothing(Tracker.current_usage, Tracker'.current_usage,
                             threads'[t].result, Tracker)]_vars
    /\ []WithinLimits

\* C9, amended: the same, with the counters taken after the window rollover
\* that increment_usage performs first (a counter whose day, hour or minute has
\* passed restarts at 0 before the limits are tested).
C9_AllOrNothing ==
    /\ [][\A t \in Threads :
            Increments(t) =>
                AllOrNothing(_check_and_reset_quotas(Tracker, clock).current_usage,
                             Tracker'.current_usage, threads'[t].result, Tracker)]_vars
    /\ []WithinLimits

\* increment_usage has returned true and then false: the daily counter stands
\* at its limit after the rejected call, and no window has rolled over.
C9_Witness ==
    /\ \E t \in Threads : threads[t].pc = "done" /\ threads[t].took = 1 /\ ~threads[t].result
    /\ \E t \in Threads : threads[t].pc = "done" /\ threads[t].result
    /\ Tracker.daily_limit >= 1
    /\ Tracker.current_usage.daily = Tracker.daily_limit
    /\ Tracker.last_reset.minute = StartOf(clock, SecondsPerMinute)

\* C10: a record_request call that returned false has changed nothing itself:
\* it added to no quota counter and took no token from the bucket.
C10_RejectionMutatesNothing ==
    \A t \in Threads :
        (threads[t].pc = "done" /\ ~threads[t].result)
        => (threads[t].added = 0 /\ threads[t].took = 0)

----------------------------------------------------------------------------
(* The public methods of QuotaManager, called one after another, for the
   configured api and for a name that was never configured.  With whole
   tokens and requests_per_second 1 the wait time is a whole number of
   seconds.                                                                *)

UnknownApi == "unknown"

Apis == {Api, UnknownApi}

\* d[k] of a Python dict: the value, or a KeyError
KeyError(d, k) == k \notin DOMAIN d

\* n < limit, for a limit that may be float('inf')
Below(n, limit) == limit = Inf \/ n < limit

\* The tracker after the call, and the value returned.
is_under_limit(q, t) ==
    LET r == _check_and_reset_quotas(q, t)
    IN [tracker |-> r,
        ret |-> /\ Below(r.current_usage.daily, r.daily_limit)
                /\ Below(r.current_usage.hourly, r.hourly_limit)
                /\ Below(r.current_usage.minute, r.minute_limit)]

\* RateLimiter.can_make_request
limiter_can_make_request(l, t) ==
    LET r == _refill_tokens(l, t)
    IN [limiter |-> r, ret |-> r.tokens >= 1]

\* RateLimiter.get_wait_time
limiter_get_wait_time(l, t) ==
    LET r == _refill_tokens(l, t)
    IN [limiter |-> r,
        ret |-> IF r.tokens >= 1 THEN 0 ELSE (1 - r.tokens) \div r.requests_per_second]

\* What a method of QuotaManager leaves and gives: the two dicts, the value
\* returned and whether it raised instead.
Answer(trackers, limiters, ret, raised) ==
    [quota_trackers |-> trackers, rate_limiters |-> limiters, ret |-> ret, raised |-> raised]

\* can_make_request without its test for an unknown api
can_make_request_unguarded(trackers, limiters, api, t) ==
    IF KeyError(trackers, api) \/ KeyError(limiters, api)
    THEN Answer(trackers, limiters, FALSE, TRUE)
    ELSE LET u == is_under_limit(trackers[api], t)
             c == limiter_can_make_request(limiters[api], t)
         IN IF u.ret
            THEN Answer([trackers EXCEPT ![api] = u.tracker],
                        [limiters EXCEPT ![api] = c.limiter], c.ret, FALSE)
            ELSE Answer([trackers EXCEPT ![api] = u.tracker], limiters, FALSE, FALSE)

can_make_request(trackers, limiters, api, t) ==
    IF api \notin DOMAIN trackers
    THEN Answer(trackers, limiters, FALSE, FALSE)
    ELSE IF KeyError(limiters, api)
    THEN Answer(trackers, limiters, FALSE, TRUE)
    ELSE LET u == is_under_limit(trackers[api], t)
             c == limiter_can_make_request(limiters[api], t)
         IN IF u.ret
            THEN Answer([trackers EXCEPT ![api] = u.tracker],
                        [limiters EXCEPT ![api] = c.limiter], c.ret, FALSE)
            ELSE Answer([trackers EXCEPT ![api] = u.tracker], limiters, FALSE, FALSE)

record_request(trackers, limiters, api, t) ==
    IF api \notin DOMAIN trackers
    THEN Answer(trackers, limiters, FALSE, FALSE)
    ELSE IF KeyError(limiters, api)
    THEN Answer(trackers, limiters, FALSE, TRUE)
    ELSE LET c == consume_token(limiters[api], t)
             i == increment_usage(trackers[api], t)
         IN IF c.ret
            THEN Answer([trackers EXCEPT ![api] = i.tracker],
                        [limiters EXCEPT ![api] = c.limiter], i.ret, FALSE)
            ELSE Answer(trackers, [limiters EXCEPT ![api] = c.limiter], FALSE, FALSE)

get_wait_time(trackers, limiters, api, t) ==
    IF api \notin DOMAIN limiters
    THEN Answer(trackers, limiters, None, FALSE)
    ELSE LET w == limiter_get_wait_time(limiters[api], t)
         IN Answer(trackers, [limiters EXCEPT ![api] = w.limiter], w.ret, FALSE)

\* The method op of the manager is called for api and answers a.
Called(op, api, a) ==
    /\ quota_trackers' = a.quota_trackers
    /\ rate_limiters' = a.rate_limiters
    /\ call' = [op |-> op, api |-> api, ret |-> a.ret, raised |-> a.raised]

CallCanMakeRequest ==
    /\ \E api \in Apis :
         Called("can_make_request", api,
                can_make_request(quota_trackers, rate_limiters, api, clock))
    /\ UNCHANGED <<clock, threads, ledger>>
    /\ UNCHANGED handlerVars

CallRecordRequest ==
    /\ ledger.calls < MaxCalls
    /\ \E api \in Apis :
         Called("record_request", api,
                record_request(quota_trackers, rate_limiters, api, clock))
    /\ ledger' = [ledger EXCEPT !.calls = @ + 1]
    /\ UNCHANGED <<clock, threads>>
    /\ UNCHANGED handlerVars

CallGetWaitTime ==
    /\ \E api \in Apis :
         Called("get_wait_time", api,
                get_wait_time(quota_trackers, rate_limiters, api, clock))
    /\ UNCHANGED <<clock, threads, ledger>>
    /\ UNCHANGED handlerVars

NextManager ==
    \/ CallCanMakeRequest
    \/ CallRecordRequest
    \/ CallGetWaitTime
    \/ TickQuota

SpecManager == InitQuota /\ [][NextManager]_vars

\* C11: for a name that was never configured, can_make_request and
\* record_request return false and get_wait_time returns None, none of them
\* raises, and no tracker or limiter is ever created for that name.
C11_UnknownFailsClosed ==
    /\ UnknownApi \notin DOMAIN quota_trackers
    /\ UnknownApi \notin DOMAIN rate_limiters
    /\ (call.op \in {"can_make_request", "record_request", "get_wait_time"}
        /\ call.api = UnknownApi)
       => /\ ~call.raised
          /\ call.op = "get_wait_time" => call.ret = None
          /\ call.op # "get_wait_time" => call.ret = FALSE

\* The unknown name is turned down while the configured api, with its quota and
\* bucket untouched by the attempts, is still admitted.
C11_Witness ==
    /\ call.op = "record_request" /\ call.api = UnknownApi
    /\ ~call.raised /\ call.ret = FALSE
    /\ ledger.calls = MaxCalls
    /\ Tracker.current_usage.minute = 0
    /\ rate_limiters[Api].tokens = rate_limiters[Api].burst_limit
    /\ can_make_request(quota_trackers, rate_limiters, Api, clock).ret

----------------------------------------------------------------------------
(* ErrorClassifier called on its own, on every kind of exception *)

\* Status codes of both tables of the classifier and some of neither: a
\* redirect, a client and a server error.
StatusCodes == RETRYABLE_STATUS_CODES \cup NON_RETRYABLE_STATUS_CODES \cup {302, 418, 501}

HttpFaults ==
    {Exception("HTTPError", 0, "none")}
    \cup {Exception("HTTPError", s, r) : s \in StatusCodes, r \in {"Response", "Mock"}}

\* The exceptions of requests the classifier names, the base of them all, the
\* two exception classes of the module and a builtin.
ExceptionClasses ==
    {"ConnectionError", "Timeout", "SSLError", "ProxyError", "ChunkedEncodingError",
     "RequestException", "RetryableError", "NonRetryableError", "ValueError"}

Exceptions == HttpFaults \cup {Exception(c, 0, "none") : c \in ExceptionClasses}

\* No handler, no quota manager: functions are called on their own.
InitCalls ==
    /\ handler = << >> /\ circuit_breakers = << >> /\ now = 0
    /\ run = IdleRun /\ hist = NoHistory /\ twin = NoTwin
    /\ quota_trackers = << >> /\ rate_limiters = << >>
    /\ clock = 0 /\ threads = << >> /\ ledger = << >>
    /\ call = NoCall

CallClassifyException ==
    /\ \E e \in Exceptions :
         call' = [op |-> "classify_exception", exception |-> e,
                  ret |-> classify_exception(e)]
    /\ UNCHANGED <<handlerVars, quotaVars>>

CallShouldRetry ==
    /\ \E e \in Exceptions, max_attempts \in 0..MaxAttempts :
         \E attempt \in 0..max_attempts :
            call' = [op |-> "should_retry", exception |-> e, attempt |-> attempt,
                     max_attempts |-> max_attempts,
                     ret |-> should_retry(e, attempt, max_attempts)]
    /\ UNCHANGED <<handlerVars, quotaVars>>

NextClassifier ==
    \/ CallClassifyException
    \/ CallShouldRetry

SpecClassifier == InitCalls /\ [][NextClassifier]_vars

\* C12: should_retry is false when attempt >= max_attempts - 1 or the severity
\* is CRITICAL, and otherwise it is the is_retryable part of classify_exception.
C12_ShouldRetry ==
    call.op = "should_retry" =>
        LET verdict == classify_exception(call.exception)
        IN /\ (call.attempt >= call.max_attempts - 1 \/ verdict[2] = "critical")
                 => call.ret = FALSE
           /\ ~(call.attempt >= call.max_attempts - 1 \/ verdict[2] = "critical")
                 => call.ret = verdict[1]

\* A retryable fault on the last attempt but one is retried.
C12_Witness ==
    /\ call.op = "should_retry"
    /\ call.exception.cls = "Timeout"
    /\ call.max_attempts = MaxAttempts /\ call.attempt = MaxAttempts - 2
    /\ call.ret = TRUE

\* The verdict the tables give for status code s.
StatusVerdict(s) ==
    IF s \in {500, 502, 503, 504} THEN <<TRUE, "high">>
    ELSE IF s \in {408, 429} THEN <<TRUE, "medium">>
    ELSE IF s = 401 THEN <<FALSE, "critical">>
    ELSE <<FALSE, "high">>

\* C13: for an HTTP fault that carries status code s, classify_exception
\* returns (True, HIGH) for 500, 502, 503 and 504, (True, MEDIUM) for 408 and
\* 429, (False, CRITICAL) for 401 and (False, HIGH) for every other code.
C13_StatusClassification ==
    (/\ call.op = "classify_exception"
     /\ call.exception.cls = "HTTPError"
     /\ call.exception.response # "none")
    => call.ret = StatusVerdict(call.exception.status)

----------------------------------------------------------------------------
(* What execute_with_retry does with the faults the classifier singles out,
   under SpecRetry *)

\* A call of execute_with_retry that the breaker let through at its start.
SyncAdmitted == HasBreaker /\ run.mode = "sync" /\ Admits(run.start, run.t0)

\* C14: a TLS fault (requests SSLError) is classified non-retryable, HIGH, and
\* execute_with_retry invokes an operation that raises it once and raises it.
C14_TlsNotRetried ==
    (SyncAdmitted /\ run.calls >= 1 /\ run.script[1] = SSLFault)
    => /\ classify_exception(run.script[1]) = <<FALSE, "high">>
       /\ run.calls = 1
       /\ run.pc = "raised" /\ run.result = SSLFault

\* The fault categories the classifier's contract enumerates: connection,
\* timeout, TLS, proxy, streaming transfer, and HTTP fault with a status.
Enumerated(e) ==
    \/ isinstance(e, {"ConnectionError", "Timeout", "SSLError", "ProxyError",
                      "ChunkedEncodingError"})
    \/ isinstance(e, {"HTTPError"}) /\ e.response # "none"

----------------------------------------------------------------------------
(* Manual reset, under SpecBreaker *)

\* A manual reset has been made and fewer failed calls than the threshold
\* have followed it.
FreshlyReset ==
    /\ HasBreaker
    /\ hist.since # None
    /\ hist.since < Breaker.failure_threshold

\* C16: a manual reset leaves the breaker CLOSED with failure_count 0 and no
\* last failure time, whatever state it was in; after it calls reach the
\* operation again, the failures are counted from 0, and the breaker opens at the
\* failure_threshold-th new failure and not before.
C16_ManualReset ==
    /\ [](FreshlyReset =>
            /\ Breaker.state = CLOSED
            /\ Breaker.failure_count = hist.since
            /\ hist.since = 0 => Breaker.last_failure_time = None)
    /\ [][/\ Reset => /\ circuit_breakers'[Service].state = CLOSED
                      /\ circuit_breakers'[Service].failure_count = 0
                      /\ circuit_breakers'[Service].last_failure_time = None
          /\ (FreshlyReset /\ AtGate) => run'.pc = "op"
          /\ (FreshlyReset /\ run.pc = "op" /\ run' # run
                /\ run.script[run.calls + 1] # Ok)
             => (circuit_breakers'[Service].state = OPEN
                    <=> hist.since + 1 = Breaker.failure_threshold)]_vars

\* A breaker reset by hand while OPEN has been opened again by as many new
\* failed calls as the largest threshold.
C16_Witness ==
    /\ HasBreaker
    /\ hist.from = OPEN
    /\ Breaker.failure_threshold = MaxThreshold
    /\ hist.since = MaxThreshold
    /\ Breaker.failure_count = MaxThreshold
    /\ Breaker.state = OPEN
    /\ run.pc = "raised" /\ run.result = ConnectionFault /\ run.calls = 1

----------------------------------------------------------------------------
(* The breakers of one handler across calls and services, under SpecServices *)

\* execute_with_retry is entered.
Enters == run.pc = "idle" /\ run'.pc # "idle"

\* C17: the breaker a call of execute_with_retry starts with is the one the
\* previous call for that service left, state and failure_count included (a new
\* one for a service never called); the call's attempt number and its backoff's
\* attempt counter start at 0; and whatever the call does, the breakers of the
\* other services stay as they are.
C17_BreakerPersists ==
    [][/\ Enters =>
            LET s == run'.service_name
            IN /\ run'.attempt = 0 /\ run'.backoff.attempt = 0
               /\ run'.start = circuit_breakers'[s]
               /\ IF s \in DOMAIN circuit_breakers
                  THEN circuit_breakers'[s] = circuit_breakers[s]
                  ELSE circuit_breakers'[s] =
                          CircuitBreaker(handler.circuit_breaker_threshold,
                                         handler.circuit_breaker_timeout)
       /\ (run.pc = "idle" \/ Done(run)) =>
            \A s \in DOMAIN circuit_breakers :
                circuit_breakers'[s] = circuit_breakers[s]
       /\ \A s \in DOMAIN circuit_breakers :
            s # run'.service_name => circuit_breakers'[s] = circuit_breakers[s]
       /\ run.pc \in {"gate", "op"} => run'.service_name = run.service_name]_vars

\* A call for one service starts with the count its previous call left, one
\* failure short of the threshold, while the breaker of the other service is
\* open.
C17_Witness ==
    /\ DOMAIN circuit_breakers = Services
    /\ handler.circuit_breaker_threshold = MaxThreshold
    /\ run.pc = "gate" /\ run.calls = 0
    /\ run.attempt = 0 /\ run.backoff.attempt = 0
    /\ run.service_name = "pubmed"
    /\ run.start.state = CLOSED /\ run.start.failure_count = MaxThreshold - 1
    /\ circuit_breakers["pubmed"] = run.start
    /\ circuit_breakers[Service].state = OPEN
    /\ circuit_breakers[Service].failure_count = MaxThreshold

----------------------------------------------------------------------------
(* TermClusterer: cluster_similar_terms and merge_similar_clusters *)

MaxTerms == 3      \* longest term list clustered

\* The terms of the model; a list may hold a term more than once.
TermNames == {"leaf", "leaves", "root"}

TermLists == UNION {[1..n -> TermNames] : n \in 1..MaxTerms}

Range(s) == {s[i] : i \in DOMAIN s}

\* The positions of the set S, in order.
RECURSIVE Positions(_)
Positions(S) ==
    IF S = {} THEN << >>
    ELSE LET last == CHOOSE i \in S : \A j \in S : j <= i
         IN Append(Positions(S \ {last}), last)

\* AgglomerativeClustering(n_clusters = k).fit_predict on n terms: a label in
\* 0..k-1 for every position, each label used. k is len(terms) for up to two
\* terms and else what _determine_optimal_clusters finds from the distances.
fit_predict(n) ==
    UNION {{l \in [1..n -> 0..(k - 1)] : Range(l) = 0..(k - 1)} :
              k \in (IF n <= 2 THEN {n} ELSE 1..n)}

\* The keys of the dict "clusters", in the order the loop over the labels
\* inserts them.
RECURSIVE Keys(_)
Keys(labels) ==
    IF labels = << >> THEN << >>
    ELSE LET n == Len(labels)
             h == Keys(SubSeq(labels, 1, n - 1))
         IN IF labels[n] \in Range(h) THEN h ELSE Append(h, labels[n])

\* The result of cluster_similar_terms for a non-empty list, given the labels
\* the clustering returns. clusters: the items of the dict, in its order.
cluster_similar_terms(terms, labels) ==
    IF Len(terms) = 1
    THEN [clusters |-> <<[id |-> 0, terms |-> <<terms[1]>>]>>, cluster_labels |-> <<0>>]
    ELSE LET keys == Keys(labels)
             Members(label) ==
                 LET at == Positions({i \in 1..Len(labels) : labels[i] = label})
                 IN [j \in 1..Len(at) |-> terms[at[j]]]
         IN [clusters |-> [c \in 1..Len(keys) |->
                              [id |-> keys[c], terms |-> Members(keys[c])]],
             cluster_labels |-> labels]

\* What get_cluster_representatives may return: for each cluster, in the order
\* of the dict, one of its members.
Representatives(clusters) ==
    {reps \in [1..Len(clusters) -> TermNames] :
        \A c \in 1..Len(clusters) : reps[c] \in Range(clusters[c].terms)}

\* The pairs of terms calculate_string_similarity may put at or above
\* merge_threshold.
SimilarPairs == {{a, b} : a \in TermNames, b \in TermNames}

\* terms.index(term)
index(terms, term) ==
    CHOOSE i \in 1..Len(terms) :
        terms[i] = term /\ \A j \in 1..(i - 1) : terms[j] # term

\* The loops of merge_similar_clusters over the pairs of clusters. st.lists:
\* the term list of each cluster; st.merged: the clusters deleted so far; the
\* clusters are numbered by their place in the dict.
RECURSIVE MergeInto(_, _, _, _, _)
MergeInto(st, i, j, reps, similar) ==
    IF j > Len(st.lists) THEN st
    ELSE IF j \in st.merged \/ {reps[i], reps[j]} \notin similar
         THEN MergeInto(st, i, j + 1, reps, similar)
         ELSE MergeInto([lists |-> [st.lists EXCEPT ![i] = @ \o st.lists[j]],
                         merged |-> st.merged \cup {j}],
                        i, j + 1, reps, similar)

RECURSIVE MergeAll(_, _, _, _)
MergeAll(st, i, reps, similar) ==
    IF i > Len(st.lists) THEN st
    ELSE IF i \in st.merged THEN MergeAll(st, i + 1, reps, similar)
         ELSE MergeAll(MergeInto(st, i, i + 1, reps, similar), i + 1, reps, similar)

\* merge_similar_clusters(result, terms, merge_threshold), given the
\* representatives and the similarities of its run.
merge_similar_clusters(result, terms, reps, similar) ==
    LET st == MergeAll([lists |-> [c \in 1..Len(result.clusters) |->
                                      result.clusters[c].terms],
                        merged |-> {}], 1, reps, similar)
        kept == Positions((1..Len(st.lists)) \ st.merged)
        Writers(p) == {k \in 1..Len(kept) :
                          \E q \in 1..Len(st.lists[kept[k]]) :
                              index(terms, st.lists[kept[k]][q]) = p}
        Last(S) == CHOOSE k \in S : \A m \in S : m <= k
    IN [clusters |-> [k \in 1..Len(kept) |-> [id |-> k - 1, terms |-> st.lists[kept[k]]]],
        cluster_labels |-> [p \in 1..Len(terms) |->
                               IF Writers(p) = {} THEN -1 ELSE Last(Writers(p)) - 1]]

\* The clustering_result passed to merge_similar_clusters, once the call has
\* returned: clusters is a copy of the dict that holds the same list objects,
\* so what extend appends to a list of the copy is appended to the caller's
\* list; del removes the key from the copy alone.
clustering_result_after(result, reps, similar) ==
    LET st == MergeAll([lists |-> [c \in 1..Len(result.clusters) |->
                                      result.clusters[c].terms],
                        merged |-> {}], 1, reps, similar)
    IN [clusters |-> [c \in 1..Len(result.clusters) |->
                         [id |-> result.clusters[c].id, terms |-> st.lists[c]]],
        cluster_labels |-> result.cluster_labels]

\* cluster_similar_terms(terms)
CallClusterSimilarTerms ==
    /\ \E terms \in TermLists :
         \E labels \in fit_predict(Len(terms)) :
            call' = [op |-> "cluster_similar_terms", terms |-> terms,
                     ret |-> cluster_similar_terms(terms, labels)]
    /\ UNCHANGED <<handlerVars, quotaVars>>

\* merge_similar_clusters on the result of the last call, with the same terms
CallMergeSimilarClusters ==
    /\ call.op \in {"cluster_similar_terms", "merge_similar_clusters"}
    /\ \E similar \in SUBSET SimilarPairs :
         \E reps \in Representatives(call.ret.clusters) :
            call' = [op |-> "merge_similar_clusters", terms |-> call.terms,
                     clustering_result |-> call.ret,
                     after |-> clustering_result_after(call.ret, reps, similar),
                     ret |-> merge_similar_clusters(call.ret, call.terms, reps, similar)]
    /\ UNCHANGED <<handlerVars, quotaVars>>

NextClusters == CallClusterSimilarTerms \/ CallMergeSimilarClusters

SpecClusters == InitCalls /\ [][NextClusters]_vars

\* The terms of all the clusters of a result, one list after the other.
RECURSIVE AllTerms(_)
AllTerms(clusters) ==
    IF clusters = << >> THEN << >>
    ELSE clusters[1].terms \o AllTerms(Tail(clusters))

Occurrences(s, x) == Cardinality({i \in DOMAIN s : s[i] = x})

\* The ClusterAssignment invariant of a result for a term list.
ClusterAssignment(terms, r) ==
    /\ Len(r.cluster_labels) = Len(terms)
    /\ \A t \in TermNames :
          Occurrences(AllTerms(r.clusters), t) = Occurrences(terms, t)
    /\ \A p \in 1..Len(terms) :
          /\ Cardinality({c \in 1..Len(r.clusters) :
                             r.clusters[c].id = r.cluster_labels[p]}) = 1
          /\ \E c \in 1..Len(r.clusters) :
                /\ r.clusters[c].id = r.cluster_labels[p]
                /\ terms[p] \in Range(r.clusters[c].terms)

\* C18: the result of cluster_similar_terms on a non-empty term list satisfies
\* the ClusterAssignment invariant, and so does the result of
\* merge_similar_clusters on such a result, whose cluster ids are 0..k-1.
C18_ClusterAssignment ==
    /\ call.op \in {"cluster_similar_terms", "merge_similar_clusters"}
          => ClusterAssignment(call.terms, call.ret)
    /\ call.op = "merge_similar_clusters"
          => {call.ret.clusters[c].id : c \in 1..Len(call.ret.clusters)}
                = 0..(Len(call.ret.clusters) - 1)

----------------------------------------------------------------------------
(* ExponentialBackoff on its own: construction, sleep and reset *)

MaxSleeps == 4     \* sleeps of one backoff object between resets

\* The backoff objects of the model, delays in milliseconds: base_delay and
\* max_delay either way round, multipliers below, at and above 1, with and
\* without jitter.
Backoffs ==
    {[ExponentialBackoff(base_delay, max_delay) EXCEPT
         !.multiplier = multiplier, !.jitter = jitter, !.max_jitter_pct = max_jitter_pct] :
       base_delay \in {0, 1000, 2000}, max_delay \in {1000, 5000, 10000},
       multiplier \in 0..3, jitter \in BOOLEAN, max_jitter_pct \in {0, 10, 50}}

\* ExponentialBackoff(...). delays: what get_delay has returned to sleep since,
\* delays[k + 1] at attempt k.
CallBackoff ==
    /\ \E b \in Backoffs :
         call' = [op |-> "ExponentialBackoff", backoff |-> b, delays |-> << >>]
    /\ UNCHANGED <<handlerVars, quotaVars>>

\* backoff.sleep(): get_delay, the sleep, and the attempt counter
CallSleep ==
    /\ call.op \in {"ExponentialBackoff", "sleep", "reset"}
    /\ call.backoff.attempt < MaxSleeps
    /\ \E r \in RandomValues :
         call' = [op |-> "sleep",
                  backoff |-> [call.backoff EXCEPT !.attempt = @ + 1],
                  delays |-> Append(call.delays, get_delay(call.backoff, r))]
    /\ UNCHANGED <<handlerVars, quotaVars>>

\* backoff.reset()
CallBackoffReset ==
    /\ call.op = "sleep"
    /\ call' = [op |-> "reset", backoff |-> backoff_reset(call.backoff), delays |-> << >>]
    /\ UNCHANGED <<handlerVars, quotaVars>>

NextBackoff == CallBackoff \/ CallSleep \/ CallBackoffReset

SpecBackoff == InitCalls /\ [][NextBackoff]_vars

\* C19: without jitter get_delay at attempt k is min(base_delay *
\* multiplier^k, max_delay), which never exceeds max_delay and, for a multiplier
\* of at least 1, does not decrease with k; with jitter it lies between that
\* value d and d * (1 + max_jitter), so it never exceeds
\* max_delay * (1 + max_jitter).
C19_Delay ==
    call.op = "sleep" =>
        LET b == call.backoff
        IN \A i \in 1..Len(call.delays) :
              LET d == Min(b.base_delay * Pow(b.multiplier, i - 1), b.max_delay)
                  delay == call.delays[i]
              IN IF b.jitter
                 THEN /\ d <= delay
                      /\ delay * 100 <= d * (100 + b.max_jitter_pct)
                      /\ delay * 100 <= b.max_delay * (100 + b.max_jitter_pct)
                 ELSE /\ delay = d
                      /\ delay <= b.max_delay
                      /\ (b.multiplier >= 1 /\ i > 1) => call.delays[i - 1] <= delay

\* Without jitter the delays have doubled up to the cap and stayed there.
C19_Witness ==
    /\ call.op = "sleep"
    /\ ~call.backoff.jitter
    /\ call.backoff.multiplier = 2
    /\ call.backoff.attempt = 4
    /\ call.delays = <<1000, 2000, 4000, 5000>>

----------------------------------------------------------------------------
(* Concurrent callers on one breaker, under SpecConcurrent *)

\* C20: whatever the interleaving of the callers, once the breaker has turned
\* HALF_OPEN at most one invocation of the operation is let through until that
\* trial has resolved.
C20_SingleTrial == HasBreaker => hist.admitted <= 1

----------------------------------------------------------------------------
(* The failed recovery trial, under SpecBreaker *)

\* C21: when the operation invoked in HALF_OPEN fails, the breaker is OPEN again
\* with failure_count one higher and last_failure_time the time of that
\* failure, whatever the threshold; and a call that meets the breaker so
\* reopened less than recovery_timeout later is rejected without invoking the
\* operation.
C21_FailedTrialReopens ==
    [][/\ (/\ HasBreaker /\ run.pc = "op" /\ run' # run
           /\ Breaker.state = HALF_OPEN
           /\ run.script[run.calls + 1] # Ok)
          => (/\ circuit_breakers'[Service].state = OPEN
              /\ circuit_breakers'[Service].failure_count = Breaker.failure_count + 1
              /\ circuit_breakers'[Service].last_failure_time = now
              /\ run'.pc = "raised" /\ run'.result = run.script[run.calls + 1])
       /\ (/\ AtGate
           /\ Breaker.state = OPEN
           /\ Breaker.failure_count > Breaker.failure_threshold
           /\ now - Breaker.last_failure_time < Breaker.recovery_timeout)
          => (/\ run'.pc = "raised" /\ run'.result = CircuitOpenError
              /\ run'.calls = run.calls
              /\ circuit_breakers'[Service] = Breaker)]_vars

\* A breaker with the largest threshold has been reopened by a failed trial,
\* later than the failure that had opened it.
C21_Witness ==
    /\ HasBreaker
    /\ Breaker.failure_threshold = MaxThreshold
    /\ run.pc = "raised" /\ run.result = ConnectionFault /\ run.calls = 1
    /\ run.start.state = OPEN
    /\ Breaker.state = OPEN
    /\ Breaker.failure_count = run.start.failure_count + 1
    /\ Breaker.last_failure_time = now
    /\ Breaker.last_failure_time > run.start.last_failure_time

----------------------------------------------------------------------------
(* Rejections by the open breaker, under SpecRetry *)

\* C22: a call rejected because the breaker is OPEN leaves state, failure_count
\* and last_failure_time as they were, in execute_with_retry and in
\* async_execute_with_retry alike, so that a rejection never postpones the
\* breaker's recovery.
C22_RejectionLeavesBreaker ==
    [][(/\ AtGate
        /\ Breaker.state = OPEN
        /\ ~_should_attempt_reset(Breaker, now))
       => (/\ circuit_breakers'[Service].state = Breaker.state
           /\ circuit_breakers'[Service].failure_count = Breaker.failure_count
           /\ circuit_breakers'[Service].last_failure_time
                 = Breaker.last_failure_time)]_vars

----------------------------------------------------------------------------
(* Threads whose calls fail at the same time on one breaker. CircuitBreaker *)
(* holds no lock, so the statements of _record_failure of one thread interleave *)
(* with those of another, and "self.failure_count += 1" is a read followed by *)
(* a write. *)

\* A thread outside _record_failure.
NoFailure == [pc |-> "idle", failure_count |-> 0]

InitRace ==
    /\ handler \in Handlers
    /\ circuit_breakers = (Service :> CircuitBreaker(handler.circuit_breaker_threshold,
                                                    handler.circuit_breaker_timeout))
    /\ now = 1
    /\ run = IdleRun /\ hist = NoHistory /\ twin = NoTwin
    /\ quota_trackers = << >> /\ rate_limiters = << >>
    /\ clock = 0 /\ ledger = << >>
    /\ threads = [t \in Threads |-> NoFailure]
    /\ call = NoCall

\* The operation thread t had invoked raises.
Raises(t) ==
    /\ threads[t].pc = "idle"
    /\ circuit_breakers[Service].failure_count <= MaxThreshold
    /\ threads' = [threads EXCEPT ![t].pc = "raising"]
    /\ UNCHANGED <<handler, circuit_breakers, now, run, hist, twin>>
    /\ UNCHANGED <<quota_trackers, rate_limiters, clock, ledger, call>>

\* _record_failure reads failure_count ... (counts beyond the largest threshold
\* are not followed any further)
FailureLoad(t) ==
    /\ threads[t].pc = "raising"
    /\ circuit_breakers[Service].failure_count <= MaxThreshold
    /\ threads' = [threads EXCEPT ![t] = [pc |-> "loaded",
                       failure_count |-> circuit_breakers[Service].failure_count]]
    /\ UNCHANGED <<handler, circuit_breakers, now, run, hist, twin>>
    /\ UNCHANGED <<quota_trackers, rate_limiters, clock, ledger, call>>

\* ... and writes what it read plus one: the failure is recorded.
FailureStore(t) ==
    /\ threads[t].pc = "loaded"
    /\ circuit_breakers' = [circuit_breakers EXCEPT
                              ![Service].failure_count = threads[t].failure_count + 1]
    /\ threads' = [threads EXCEPT ![t].pc = "stored"]
    /\ UNCHANGED <<handler, now, run, twin>>
    /\ UNCHANGED <<quota_trackers, rate_limiters, clock, ledger, call>>

\* self.last_failure_time = time.time()
FailureTime(t) ==
    /\ threads[t].pc = "stored"
    /\ circuit_breakers' = [circuit_breakers EXCEPT ![Service].last_failure_time = now]
    /\ threads' = [threads EXCEPT ![t].pc = "timed"]
    /\ UNCHANGED <<handler, now, run, hist, twin>>
    /\ UNCHANGED <<quota_trackers, rate_limiters, clock, ledger, call>>

\* The comparison with the threshold, and the opening.
FailureCheck(t) ==
    /\ threads[t].pc = "timed"
    /\ circuit_breakers' =
          IF circuit_breakers[Service].failure_count
                >= circuit_breakers[Service].failure_threshold
          THEN [circuit_breakers EXCEPT ![Service].state = OPEN]
          ELSE circuit_breakers
    /\ threads' = [threads EXCEPT ![t] = NoFailure]
    /\ UNCHANGED <<handler, now, run, hist, twin>>
    /\ UNCHANGED <<quota_trackers, rate_limiters, clock, ledger, call>>

\* What FailureStore adds to the breaker's history: one more failure recorded.
Recorded == hist' = [hist EXCEPT !.fails = @ + 1]

NextRace ==
    \E t \in Threads :
        \/ Raises(t)
        \/ FailureLoad(t)
        \/ FailureStore(t) /\ Recorded
        \/ FailureTime(t)
        \/ FailureCheck(t)

SpecRace == InitRace /\ [][NextRace]_vars

\* C23: whatever the interleaving of the failed calls, failure_count has grown
\* by the number of failures recorded, and the breaker is OPEN once that many
\* failures have reached failure_threshold.
C23_NoLostFailure ==
    (\A t \in Threads : threads[t].pc = "idle") =>
        /\ Breaker.failure_count = hist.fails
        /\ hist.fails >= Breaker.failure_threshold => Breaker.state = OPEN

----------------------------------------------------------------------------
(* Threads in CircuitBreaker.call on one breaker, statement by statement, with *)
(* manual resets and time passing. *)

\* The check of the breaker by thread t; a rejected thread has nothing more to
\* do.
ThreadGate(t) ==
    /\ threads[t].pc = "idle"
    /\ circuit_breakers[Service].failure_count <= MaxThreshold
    /\ LET cb == circuit_breakers[Service]
       IN IF cb.state = OPEN
          THEN /\ _should_attempt_reset(cb, now)
               /\ circuit_breakers' = [circuit_breakers EXCEPT ![Service].state = HALF_OPEN]
          ELSE UNCHANGED circuit_breakers
    /\ threads' = [threads EXCEPT ![t].pc = "op"]
    /\ UNCHANGED <<handler, now, run, hist, twin>>
    /\ UNCHANGED <<quota_trackers, rate_limiters, clock, ledger, call>>

\* The operation of thread t returns or raises.
ThreadOp(t) ==
    /\ threads[t].pc = "op"
    /\ \E pc \in {"returned", "raising"} : threads' = [threads EXCEPT ![t].pc = pc]
    /\ UNCHANGED <<handler, circuit_breakers, now, run, hist, twin>>
    /\ UNCHANGED <<quota_trackers, rate_limiters, clock, ledger, call>>

\* if self.state == CircuitBreakerState.HALF_OPEN
SuccessTest(t) ==
    /\ threads[t].pc = "returned"
    /\ threads' = [threads EXCEPT ![t].pc =
                      IF circuit_breakers[Service].state = HALF_OPEN
                      THEN "closing" ELSE "idle"]
    /\ UNCHANGED <<handler, circuit_breakers, now, run, hist, twin>>
    /\ UNCHANGED <<quota_trackers, rate_limiters, clock, ledger, call>>

\* self.state = CircuitBreakerState.CLOSED
SuccessClose(t) ==
    /\ threads[t].pc = "closing"
    /\ circuit_breakers' = [circuit_breakers EXCEPT ![Service].state = CLOSED]
    /\ threads' = [threads EXCEPT ![t].pc = "zeroing"]
    /\ UNCHANGED <<handler, now, run, hist, twin>>
    /\ UNCHANGED <<quota_trackers, rate_limiters, clock, ledger, call>>

\* self.failure_count = 0
SuccessZero(t) ==
    /\ threads[t].pc = "zeroing"
    /\ circuit_breakers' = [circuit_breakers EXCEPT ![Service].failure_count = 0]
    /\ threads' = [threads EXCEPT ![t].pc = "idle"]
    /\ UNCHANGED <<handler, now, run, hist, twin>>
    /\ UNCHANGED <<quota_trackers, rate_limiters, clock, ledger, call>>

NextThreads ==
    \/ \E t \in Threads :
          \/ ThreadGate(t)
          \/ ThreadOp(t)
          \/ SuccessTest(t)
          \/ SuccessClose(t)
          \/ SuccessZero(t)
          \/ FailureLoad(t)
          \/ FailureStore(t) /\ UNCHANGED hist
          \/ FailureTime(t)
          \/ FailureCheck(t)
    \/ Reset
    \/ Tick

\* The handlers differ in the threshold and the timeout of the breaker.
InitThreads == InitRace /\ handler.max_attempts = 1

SpecThreads == InitThreads /\ [][NextThreads]_vars

----------------------------------------------------------------------------
(* The breaker's fields against each other, under SpecThreads *)

\* No thread is inside the statements that update the breaker.
Settled == \A t \in Threads : threads[t].pc \in {"idle", "op"}

\* C24: whatever the calls and manual resets and however they interleave, on a
\* breaker with failure_threshold >= 1 CLOSED goes with failure_count below the
\* threshold, OPEN and HALF_OPEN with failure_count at or above it and a
\* last_failure_time, so that an OPEN breaker becomes eligible for recovery once
\* recovery_timeout has passed.
C24_StateMatchesCount ==
    (HasBreaker /\ Settled) =>
        /\ Breaker.state = CLOSED => Breaker.failure_count < Breaker.failure_threshold
        /\ Breaker.state \in {OPEN, HALF_OPEN} =>
              /\ Breaker.failure_count >= Breaker.failure_threshold
              /\ Truthy(Breaker.last_failure_time)
        /\ Breaker.state = OPEN =>
              _should_attempt_reset(Breaker,
                  Breaker.last_failure_time + Breaker.recovery_timeout)

----------------------------------------------------------------------------
(* CircuitBreaker.call with its diagnostic events. The calls of *)
(* structured_logger stand in the code without a try of their own, so an *)
(* exception raised by one of them travels like any other exception raised at *)
(* that place. *)

\* What a failing emission raises.
LoggingFault == Outcome("OSError", 0)

\* _record_failure with its warning: the breaker after it, and whether the
\* warning raised.
_record_failure_logged(cb, t, log_raises) ==
    LET c == _record_failure(cb, t)
    IN [cb |-> c, raised |-> log_raises /\ c.failure_count >= c.failure_threshold]

\* The try statement of CircuitBreaker.call on breaker cb, the operation doing o.
call_try(cb, t, o, log_raises) ==
    IF o = Ok
    THEN IF cb.state = HALF_OPEN
         THEN LET closed == [cb EXCEPT !.state = CLOSED, !.failure_count = 0]
              IN IF log_raises
                 THEN \* logger.info raises inside the try: the except clause has it
                      [cb |-> _record_failure_logged(closed, t, log_raises).cb,
                       ret |-> LoggingFault, invoked |-> TRUE]
                 ELSE [cb |-> closed, ret |-> Ok, invoked |-> TRUE]
         ELSE [cb |-> cb, ret |-> Ok, invoked |-> TRUE]
    ELSE LET f == _record_failure_logged(cb, t, log_raises)
         IN [cb |-> f.cb, ret |-> IF f.raised THEN LoggingFault ELSE o, invoked |-> TRUE]

\* CircuitBreaker.call(func) at time t: the breaker after the call, what the
\* caller gets, and whether func was invoked. log_raises: the emissions of this
\* call raise.
call_logged(cb, t, o, log_raises) ==
    IF cb.state = OPEN
    THEN IF _should_attempt_reset(cb, t)
         THEN LET half == [cb EXCEPT !.state = HALF_OPEN]
              IN IF log_raises
                 THEN [cb |-> half, ret |-> LoggingFault, invoked |-> FALSE]
                 ELSE call_try(half, t, o, log_raises)
         ELSE [cb |-> cb, ret |-> CircuitOpenError, invoked |-> FALSE]
    ELSE call_try(cb, t, o, log_raises)

\* cb.call(func) on the breaker of the service, with emissions that work or
\* raise.
CallLogged ==
    /\ LET cbs == _get_circuit_breaker(handler, circuit_breakers, Service)
       IN /\ cbs[Service].failure_count <= MaxThreshold
          /\ \E o \in {Ok, ConnectionFault}, log_raises \in BOOLEAN :
               LET r == call_logged(cbs[Service], now, o, log_raises)
               IN /\ circuit_breakers' = [cbs EXCEPT ![Service] = r.cb]
                  /\ call' = [op |-> "call", before |-> cbs[Service], t |-> now,
                              outcome |-> o, log_raises |-> log_raises, ret |-> r.ret]
    /\ UNCHANGED <<handler, now, run, hist, twin, quotaVars>>

\* Time passes between the calls.
TickLogged ==
    /\ now < MaxTime
    /\ now' = now + 1
    /\ UNCHANGED <<handler, circuit_breakers, run, hist, twin, quotaVars, call>>

NextLogged == CallLogged \/ TickLogged

SpecLogged == Init /\ [][NextLogged]_vars

\* C25: when an emission of a call raises, the caller still gets what the
\* operation returned or raised, and the breaker is left as the same call
\* leaves it when the emissions work.
C25_EmissionNeverMasks ==
    (call.op = "call" /\ call.log_raises) =>
        LET quiet == call_logged(call.before, call.t, call.outcome, FALSE)
        IN /\ call.ret = quiet.ret
           /\ Breaker.state = quiet.cb.state
           /\ Breaker.failure_count = quiet.cb.failure_count

----------------------------------------------------------------------------
(* A breaker built with an exception family of its own: *)
(* CircuitBreaker(failure_threshold, recovery_timeout, expected_exception). *)

\* The families a breaker is built with in this specification.
ExpectedFamilies == {"Exception", "RequestException", "ConnectionError"}

\* CircuitBreaker.call(func) at time t, func doing o: the breaker as the gate
\* left it, the breaker after the call, and what the caller gets.
call_expecting(cb, t, o) ==
    LET gated == IF cb.state = OPEN /\ _should_attempt_reset(cb, t)
                 THEN [cb EXCEPT !.state = HALF_OPEN] ELSE cb
    IN IF cb.state = OPEN /\ ~_should_attempt_reset(cb, t)
       THEN [cb |-> cb, gated |-> cb, ret |-> CircuitOpenError]
       ELSE IF o = Ok
            THEN [cb |-> IF gated.state = HALF_OPEN
                         THEN [gated EXCEPT !.state = CLOSED, !.failure_count = 0]
                         ELSE gated,
                  gated |-> gated, ret |-> Ok]
            ELSE IF isinstance(o, {cb.expected_exception})
                 THEN [cb |-> _record_failure(gated, t), gated |-> gated, ret |-> o]
                 ELSE [cb |-> gated, gated |-> gated, ret |-> o]

InitExpected ==
    /\ handler \in Handlers
    /\ \E e \in ExpectedFamilies :
         circuit_breakers =
             (Service :> [failure_threshold |-> handler.circuit_breaker_threshold,
                          recovery_timeout |-> handler.circuit_breaker_timeout,
                          expected_exception |-> e,
                          failure_count |-> 0,
                          last_failure_time |-> None,
                          state |-> CLOSED])
    /\ now = 1
    /\ run = IdleRun /\ hist = NoHistory /\ twin = NoTwin
    /\ quota_trackers = << >> /\ rate_limiters = << >>
    /\ clock = 0 /\ threads = << >> /\ ledger = << >>
    /\ call = NoCall

\* cb.call(func) on the breaker.
CallExpecting ==
    /\ Breaker.failure_count <= MaxThreshold
    /\ \E o \in OpOutcomes :
         LET r == call_expecting(Breaker, now, o)
         IN /\ circuit_breakers' = [circuit_breakers EXCEPT ![Service] = r.cb]
            /\ call' = [op |-> "call", before |-> Breaker, gated |-> r.gated, t |-> now,
                        outcome |-> o, ret |-> r.ret]
    /\ UNCHANGED <<handler, now, run, hist, twin, quotaVars>>

NextExpected == CallExpecting \/ TickLogged

SpecExpected == InitExpected /\ [][NextExpected]_vars

\* The last call admitted func, and func raised outside the breaker's family.
Unexpected ==
    /\ call.op = "call"
    /\ call.outcome # Ok
    /\ ~(call.before.state = OPEN /\ ~_should_attempt_reset(call.before, call.t))
    /\ ~isinstance(call.outcome, {call.before.expected_exception})

\* C26: an exception outside the breaker's family reaches the caller unchanged
\* and leaves state, failure_count and last_failure_time as they were before
\* the call.
C26_UnexpectedLeavesBreaker ==
    Unexpected =>
        /\ call.ret = call.outcome
        /\ Breaker.state = call.before.state
        /\ Breaker.failure_count = call.before.failure_count
        /\ Breaker.last_failure_time = call.before.last_failure_time

----------------------------------------------------------------------------
(* QuotaMiddleware.intercept_request, called by the threads that share one *)
(* middleware, one call after the other. *)

\* QuotaTracker.get_limiting_quota: the tracker after the call, and the value
\* returned.
tracker_get_limiting_quota(q, t) ==
    LET r == _check_and_reset_quotas(q, t)
    IN [tracker |-> r,
        ret |-> IF ~Below(r.current_usage.minute, r.minute_limit) THEN "minute"
                ELSE IF ~Below(r.current_usage.hourly, r.hourly_limit) THEN "hourly"
                ELSE IF ~Below(r.current_usage.daily, r.daily_limit) THEN "daily"
                ELSE "None"]

\* Mutant of get_limiting_quota: no quota is ever named.
get_limiting_quota_silent(trackers, limiters, api, t) ==
    IF api \notin DOMAIN trackers
    THEN Answer(trackers, limiters, "None", FALSE)
    ELSE LET g == tracker_get_limiting_quota(trackers[api], t)
         IN Answer([trackers EXCEPT ![api] = g.tracker], limiters, "None", FALSE)

\* QuotaManager.get_limiting_quota
get_limiting_quota(trackers, limiters, api, t) ==
    IF api \notin DOMAIN trackers
    THEN Answer(trackers, limiters, "None", FALSE)
    ELSE LET g == tracker_get_limiting_quota(trackers[api], t)
         IN Answer([trackers EXCEPT ![api] = g.tracker], limiters, g.ret, FALSE)

\* A thread outside intercept_request. verdict is how its last call ended;
\* recorded: record_request returned true in it; invoked: request_func ran in
\* it; limiting and empty: a counter was at its limit, the bucket was empty,
\* when the call raised.
NoRequest ==
    [pc |-> "idle", verdict |-> "none", recorded |-> FALSE, invoked |-> FALSE,
     limiting |-> FALSE, empty |-> FALSE]

\* What intercept_request raises.
QuotaLimitExceeded == "Quota limit exceeded"
RateLimitExceeded == "Rate limit exceeded"
FailedToRecord == "Failed to record request"

\* The thread raises verdict, with the trackers and limiters as they are then.
Rejected(th, verdict, trackers, limiters, t) ==
    [th EXCEPT !.pc = "done", !.verdict = verdict,
               !.limiting = tracker_get_limiting_quota(trackers[Api], t).ret # "None",
               !.empty = ~limiter_can_make_request(limiters[Api], t).ret]

InitMiddleware ==
    /\ handler = << >> /\ circuit_breakers = << >> /\ now = 0
    /\ run = IdleRun /\ hist = NoHistory /\ twin = NoTwin
    /\ clock = 0
    /\ \E config \in Configs :
         /\ quota_trackers = (Api :> QuotaTracker(config, clock))
         /\ rate_limiters = (Api :> RateLimiter(config, clock))
    /\ threads = [t \in Threads |-> NoRequest]
    /\ ledger = NewLedger(0, FALSE)
    /\ call = NoCall

\* Thread t enters intercept_request(Api, request_func): can_make_request and,
\* when it is false, get_limiting_quota and get_wait_time.
InterceptCheck(t) ==
    /\ \A u \in Threads : threads[u].pc \in {"idle", "done"}
    /\ ledger.calls < MaxCalls
    /\ LET c == can_make_request(quota_trackers, rate_limiters, Api, clock)
           g == get_limiting_quota(c.quota_trackers, c.rate_limiters, Api, clock)
           w == get_wait_time(g.quota_trackers, g.rate_limiters, Api, clock)
       IN IF c.ret
          THEN /\ quota_trackers' = c.quota_trackers
               /\ rate_limiters' = c.rate_limiters
               /\ threads' = [threads EXCEPT ![t] = [NoRequest EXCEPT !.pc = "record"]]
          ELSE /\ quota_trackers' = w.quota_trackers
               /\ rate_limiters' = w.rate_limiters
               /\ threads' = [threads EXCEPT ![t] =
                    IF g.ret # "None"
                    THEN Rejected(NoRequest, QuotaLimitExceeded,
                                  w.quota_trackers, w.rate_limiters, clock)
                    ELSE IF w.ret # None /\ w.ret > 0
                    THEN Rejected(NoRequest, RateLimitExceeded,
                                  w.quota_trackers, w.rate_limiters, clock)
                    ELSE [NoRequest EXCEPT !.pc = "record"]]
    /\ ledger' = [ledger EXCEPT !.calls = @ + 1]
    /\ UNCHANGED clock
    /\ UNCHANGED <<handlerVars, call>>

\* if not self.quota_manager.record_request(api_name): raise
InterceptRecord(t) ==
    /\ threads[t].pc = "record"
    /\ LET r == record_request(quota_trackers, rate_limiters, Api, clock)
       IN /\ quota_trackers' = r.quota_trackers
          /\ rate_limiters' = r.rate_limiters
          /\ threads' = [threads EXCEPT ![t] =
               IF r.ret
               THEN [@ EXCEPT !.pc = "request", !.recorded = TRUE]
               ELSE Rejected(@, FailedToRecord, r.quota_trackers, r.rate_limiters, clock)]
    /\ UNCHANGED <<clock, ledger>>
    /\ UNCHANGED <<handlerVars, call>>

\* result = request_func()
InterceptRequest(t) ==
    /\ threads[t].pc = "request"
    /\ threads' = [threads EXCEPT ![t] =
                     [@ EXCEPT !.pc = "done", !.verdict = "returned", !.invoked = TRUE]]
    /\ UNCHANGED <<quota_trackers, rate_limiters, clock, ledger>>
    /\ UNCHANGED <<handlerVars, call>>

\* Time passes, at any point of any call.
TickMiddleware ==
    /\ Moved(clock) < MaxCalendar
    /\ \E t \in Later(clock) : clock' = t
    /\ UNCHANGED <<quota_trackers, rate_limiters, threads, ledger>>
    /\ UNCHANGED <<handlerVars, call>>

NextMiddleware ==
    \/ \E t \in Threads : InterceptCheck(t)
    \/ \E t \in Threads : InterceptRecord(t)
    \/ \E t \in Threads : InterceptRequest(t)
    \/ TickMiddleware

SpecMiddleware == InitMiddleware /\ [][NextMiddleware]_vars

----------------------------------------------------------------------------
(* Successes between failures, under SpecBreaker *)

\* C28: a call that succeeds while the breaker is CLOSED leaves the breaker as
\* it was; a call that fails while it is CLOSED adds one to failure_count and
\* opens the breaker exactly when the count reaches failure_threshold; so until
\* its first reset failure_count is the number of failed calls, whatever
\* succeeded between them.
C28_SuccessKeepsCount ==
    [][(HasBreaker /\ run.pc = "op" /\ Breaker.state = CLOSED /\ run' # run) =>
          /\ IF run'.pc = "returned"
             THEN circuit_breakers'[Service] = Breaker
             ELSE /\ circuit_breakers'[Service].failure_count = Breaker.failure_count + 1
                  /\ circuit_breakers'[Service].state = OPEN
                       <=> Breaker.failure_count + 1 >= Breaker.failure_threshold
          /\ ~hist'.reset => circuit_breakers'[Service].failure_count = hist'.fails]_vars

\* A call has just succeeded on a CLOSED breaker that is one failure short of
\* its threshold.
C28_Witness ==
    /\ HasBreaker /\ ~hist.reset
    /\ run.pc = "returned" /\ run.result = Ok
    /\ Breaker.state = CLOSED
    /\ Breaker.failure_threshold = MaxThreshold
    /\ Breaker.failure_count = MaxThreshold - 1
    /\ Breaker.failure_count >= 1
    /\ hist.fails = Breaker.failure_count

----------------------------------------------------------------------------
(* A function wrapped by retry_on_error: every call of wrapper or *)
(* async_wrapper builds a RobustErrorHandler from the decorator's arguments *)
(* and runs the function through it. *)

\* Mutant of wrapper_handler: the decorator's calls share one handler.
wrapper_handler_shared(h, cbs) == [handler |-> h, circuit_breakers |-> cbs]

\* handler = RobustErrorHandler(max_attempts=..., base_delay=..., max_delay=...)
\* where h and cbs are the handler of the call before and its breakers: the
\* same arguments, circuit_breakers = {}.
wrapper_handler(h, cbs) == [handler |-> h, circuit_breakers |-> << >>]

\* wrapper(*args, **kwargs) or async_wrapper(*args, **kwargs), up to the first
\* statement of the handler's loop.
WrapperCall(mode) ==
    /\ run.pc = "idle"
    /\ LET new == wrapper_handler(handler, circuit_breakers)
           cbs == _get_circuit_breaker(new.handler, new.circuit_breakers, Service)
       IN /\ handler' = new.handler
          /\ \E script \in Scripts(handler.max_attempts) :
               /\ circuit_breakers' = cbs
               /\ run' = BeginRun(new.handler, mode, script, cbs[Service], now)
    /\ UNCHANGED <<now, hist, twin>>
    /\ UNCHANGED <<quotaVars, call>>

\* What a step of the wrapped call adds to the history: the invocations of the
\* function that failed, in all calls of the wrapper, counted up to MaxThreshold.
FailedBefore ==
    hist' = IF run.pc = "op" /\ ~(run'.result = Ok /\ Done(run'))
            THEN [hist EXCEPT !.fails = Min(@ + 1, MaxThreshold)]
            ELSE hist

NextDecorated ==
    \/ WrapperCall("sync")
    \/ WrapperCall("async")
    \/ StepCall /\ FailedBefore
    \/ Finish
    \/ Tick /\ run.pc = "idle"

SpecDecorated == Init /\ [][NextDecorated]_vars

\* C29: every call of the wrapped function meets a breaker that is CLOSED with
\* failure_count 0, and is rejected as circuit-open only after its own
\* invocations of the function failed failure_threshold times.
C29_FreshBreakerPerCall ==
    run.pc # "idle" =>
        /\ run.start = CircuitBreaker(handler.circuit_breaker_threshold,
                                      handler.circuit_breaker_timeout)
        /\ (Done(run) /\ run.result = CircuitOpenError) =>
               run.calls >= handler.circuit_breaker_threshold

\* Earlier calls failed as often as the threshold asks, and the call in
\* progress has been admitted to its first invocation.
C29_Witness ==
    /\ HasBreaker
    /\ hist.fails >= handler.circuit_breaker_threshold
    /\ run.pc = "op" /\ run.calls = 0 /\ run.attempt = 0
    /\ Breaker.state = CLOSED /\ Breaker.failure_count = 0

----------------------------------------------------------------------------
(* The argument of merge_similar_clusters, under SpecClusters *)

\* C30: after merge_similar_clusters has returned, the clustering_result it was
\* given has the clusters, with the member lists, and the cluster_labels it had
\* before the call.
C30_InputUntouched ==
    call.op = "merge_similar_clusters" =>
        /\ call.after.clusters = call.clustering_result.clusters
        /\ call.after.cluster_labels = call.clustering_result.cluster_labels

====
